---------------------------- MODULE Spec2Model ----------------------------
(***************************************************************************)
(* A model of GoPix (goki/gopix): the picture library kept as files in     *)
(* <root>/All, soft-deleted files in <root>/Trash, album folders holding   *)
(* symbolic links ../All/<name>, the AllInfo record store (info.json) and  *)
(* the thumbnail directory.                                                *)
(*                                                                         *)
(* Spec      : the file operations of PixView (links, trash, rename,       *)
(*             duplicate, date edit, rotate) over the library.             *)
(* SpecUniq  : UniquifyBaseNames over adversarial directory contents.      *)
(* SpecDir   : directory reconciliation (record list, sort, thumbnails).   *)
(* SpecThumb : the parallel thumbnail update (ThumbUpdt / ThumbUpdtThr).   *)
(***************************************************************************)
EXTENDS Integers, Sequences, FiniteSets, TLC

(***************************************************************************)
(* Bounds of the model.                                                    *)
(***************************************************************************)
\* capture dates / name stems are 1..MaxDate
MaxDate == 2
\* burst numbers of canonical names are 0..MaxNum
MaxNum == 1
\* pictures that ever exist in All and Trash together
MaxPics == 2
\* handler invocations in one session of the program
MaxOps == 4

(***************************************************************************)
(* Orientations (picinfo/info.go, the Orientations enum).                  *)
(***************************************************************************)
NoOrient == 0
Rotated0 == 1
FlippedH == 2
Rotated180 == 3
FlippedV == 4
FlippedHRotated90L == 5
Rotated90L == 6
FlippedHRotated90R == 7
Rotated90R == 8
OrientUndef == 9

\* Orientations.Rotate: the orientation updated by a +/-90 or 180 rotation.
Rotate(or, deg) ==
    CASE or \in {NoOrient, Rotated0, OrientUndef} ->
           (CASE deg = 90 -> Rotated90L
              [] deg = -90 -> Rotated90R
              [] deg = 180 -> Rotated180
              [] OTHER -> or)
      [] or = Rotated90L ->
           (CASE deg = 90 -> Rotated180
              [] deg = -90 -> Rotated0
              [] deg = 180 -> Rotated90R
              [] OTHER -> or)
      [] or = Rotated90R ->
           (CASE deg = 90 -> Rotated0
              [] deg = -90 -> Rotated180
              [] deg = 180 -> Rotated90L
              [] OTHER -> or)
      [] or = Rotated180 ->
           (CASE deg = 90 -> Rotated90R
              [] deg = -90 -> Rotated90L
              [] deg = 180 -> Rotated0
              [] OTHER -> or)
      [] OTHER -> or

(***************************************************************************)
(* The library on disk.                                                    *)
(*   A file name is [base, ext]; base = <<stem, num>> stands for the       *)
(*   extension-stripped name img_<stem>_n<num>.                            *)
(*   A file's content is its container format, its embedded capture date   *)
(*   (0: none), orientation and image number (0: none) and its             *)
(*   modification time.                                                    *)
(***************************************************************************)
VARIABLES
    all,          \* <root>/All: file name -> content
    trash,        \* <root>/Trash: file name -> content
    disk,         \* the directories under <root>
    links,        \* album folder -> names of the symlinks ../All/<name> in it
    thumbs,       \* bases that have a thumbnail <base>.jpg
    Folders,      \* PixView.Folders: cached list of album folders
    FolderFiles,  \* PixView.FolderFiles: [nil, maps], per-folder name cache
    AllInfo,      \* PixView.AllInfo: base -> record
    Folder,       \* PixView.Folder: folder being viewed
    crashed,      \* the process died of a runtime panic
    nops,         \* handlers run so far
    lastOp        \* the handler that ran last, with its arguments

fsVars == <<all, trash, disk, links, thumbs, Folders, FolderFiles, AllInfo,
            Folder, crashed, nops, lastOp>>

(***************************************************************************)
(* The thumbnail update of a folder (gopix/thumbs.go) and the              *)
(* reconciliation of a folder.                                             *)
(***************************************************************************)
VARIABLES
    Images,       \* PixView.Images: the files of the folder, in listing order
    ThumbFiles,   \* modification time of the thumbnail of Images[i], 0: none
    Thumb0,       \* ThumbFiles when the update started
    Thumbs,       \* PixView.Thumbs: the result slice
    ncp,          \* runtime.NumCPU()
    mainPc,       \* where ThumbUpdt is: "go", "add", "wait", "done", "panic"
    spawnI,       \* ThumbUpdt's loop index i
    spawnSt,      \* ThumbUpdt's st
    thr,          \* the ThumbUpdtThr goroutines started: [st, ed, i, pc]
    WaitGp,       \* the counter of PixView.WaitGp
    wrote,        \* per slot of Thumbs, the goroutines that wrote it
    regen,        \* indices whose thumbnail was written
    Info,         \* PixView.Info: the ordered records of the folder
    Prev          \* the lists the reconciliation before the last one returned

thVars == <<Images, ThumbFiles, Thumb0, Thumbs, ncp, mainPc, spawnI, spawnSt,
            thr, WaitGp, wrote, regen, Info, Prev>>

(***************************************************************************)
(* The store file info.json and its saving, the progress monitor PProg,    *)
(* and the argument and result of a function that is checked by itself.    *)
(***************************************************************************)
VARIABLES
    AllMu,        \* PixView.AllMu: "free" or the goroutine that holds it
    savePc,       \* where the saving goroutine is, "none": not started
    jsonFiles,    \* [json, bak]: content of info.json and info.json~
    save0,        \* jsonFiles and the store when the saving started
    mapAcc,          \* the accesses to the AllInfo map made so far
    Max,          \* PProg.Max
    Inc,          \* PProg.Inc
    Cur,          \* PProg.Cur
    Mu,           \* PProg.Mu: 0 or the goroutine that holds it
    steps,        \* the goroutines calling PProg.Step: [pc, left, tmp]
    bar,          \* the values of Cur with which UpdtBar was called
    arg,          \* the argument of the function under check
    res           \* its result, once applied

svVars == <<AllMu, savePc, jsonFiles, save0, mapAcc>>
ppVars == <<Max, Inc, Cur, Mu, steps, bar>>
fnVars == <<arg, res>>

\* the content of a file: none (the file does not exist), empty (just
\* created) or the JSON text of a map
NoFile == [kind |-> "nofile", map |-> <<>>]
EmptyFile == [kind |-> "empty", map |-> <<>>]
JsonFile(m) == [kind |-> "json", map |-> m]

IdleSave ==
    /\ AllMu = "free" /\ savePc = "none"
    /\ jsonFiles = [json |-> NoFile, bak |-> NoFile]
    /\ save0 = <<>> /\ mapAcc = {}

IdleProg ==
    /\ Max = 1 /\ Inc = 10 /\ Cur = 0 /\ Mu = 0 /\ steps = <<>> /\ bar = <<>>

IdleFn == arg = <<>> /\ res = <<>>

Dates == 1..MaxDate
Nums == 0..MaxNum
Bases == Dates \X Nums
Exts == {"jpg", "png"}
Names == [base : Bases, ext : Exts]
AlbumNames == {"A", "B"}
\* directory names in the byte order a directory listing returns them
DirOrder == <<"A", "All", "B", "Trash">>
\* the time of every write made while the program runs (after all initial times)
WriteTime == MaxDate + 1

Mk(b, e) == [base |-> b, ext |-> e]

\* filecat.SupportedFromFile: the format decided from the file name's extension
SupportedFromFile(nm) == IF nm.ext = "jpg" THEN "Jpeg" ELSE "Png"

(***************************************************************************)
(* Records.                                                                *)
(***************************************************************************)
\* NewInfoForFile: DateTaken = FileMod as the method of last resort
NewInfoForFile(nm, c) ==
    [File |-> nm, Ext |-> nm.ext, Sup |-> SupportedFromFile(nm),
     Number |-> 0, DateTaken |-> c.mtime, Orient |-> NoOrient,
     Thumb |-> <<>>]

\* ParseRawExif: the embedded tags override the defaults
ParseRawExif(pi, c) ==
    [pi EXCEPT !.DateTaken = IF c.date # 0 THEN c.date ELSE pi.DateTaken,
               !.Number = IF c.num # 0 THEN c.num ELSE pi.Number,
               !.Orient = IF c.orient # NoOrient THEN c.orient ELSE pi.Orient]

\* OpenNewInfo
OpenNewInfo(nm, c) == ParseRawExif(NewInfoForFile(nm, c), c)

\* SetFileThumbFmBase: File is <base><Ext> in All, Thumb is <base>.jpg in
\* the thumbnail directory
SetFileThumbFmBase(pi, fnext) ==
    [pi EXCEPT !.File = Mk(fnext, pi.Ext), !.Thumb = fnext]

\* the fields of a record that info.json keeps (File and Thumb are derived)
Persisted(pi) ==
    [Ext |-> pi.Ext, Sup |-> pi.Sup, Number |-> pi.Number,
     DateTaken |-> pi.DateTaken, Orient |-> pi.Orient]

(***************************************************************************)
(* The state as one value, so that a handler is a composition of the       *)
(* functions it calls.                                                     *)
(***************************************************************************)
W == [all |-> all, trash |-> trash, disk |-> disk, links |-> links,
      thumbs |-> thumbs, Folders |-> Folders, FolderFiles |-> FolderFiles,
      AllInfo |-> AllInfo, crashed |-> crashed]

SetFS(w) ==
    /\ all' = w.all
    /\ trash' = w.trash
    /\ disk' = w.disk
    /\ links' = w.links
    /\ thumbs' = w.thumbs
    /\ Folders' = w.Folders
    /\ FolderFiles' = w.FolderFiles
    /\ AllInfo' = w.AllInfo
    /\ crashed' = w.crashed
    /\ nops' = nops + 1

SetW(w) == SetFS(w) /\ UNCHANGED <<thVars, svVars, ppVars, fnVars>>

\* a handler runs while the process lives (and the session lasts)
Running == ~crashed /\ nops < MaxOps

Without(f, k) == [x \in DOMAIN f \ {k} |-> f[x]]
With(f, k, v) == [x \in DOMAIN f \cup {k} |-> IF x = k THEN v ELSE f[x]]

\* a set as a sequence, in some fixed order (the order of a selection)
RECURSIVE SetToSeq(_)
SetToSeq(S) ==
    IF S = {} THEN <<>>
    ELSE LET x == CHOOSE y \in S : TRUE IN <<x>> \o SetToSeq(S \ {x})

\* dirs.Dirs(ImageDir): the directories, sorted by name
Dirs(d) == SelectSeq(DirOrder, LAMBDA f : f \in d)

\* UpdateFolders: the directory list without All and Trash
UpdateFolders(w) ==
    [w EXCEPT !.Folders = SelectSeq(Dirs(w.disk),
                                    LAMBDA f : ~(f = "All" \/ f = "Trash"))]

\* GetFolderFiles: one name set per entry of Folders
GetFolderFiles(w) ==
    [w EXCEPT !.FolderFiles =
        [nil |-> FALSE,
         maps |-> [i \in 1..Len(w.Folders) |-> w.links[w.Folders[i]]]]]

NilFolderFiles == [nil |-> TRUE, maps |-> <<>>]

\* os.Rename that fails and leaves the directory as it was
OsRename_noop(dir, old, new) == dir

\* os.Rename inside one directory: moves the content, replacing the target
OsRename(dir, old, new) ==
    IF old \in DOMAIN dir /\ old # new
    THEN With(Without(dir, old), new, dir[old])
    ELSE dir

\* LinkToFolder: os.Symlink("../All/<name>", <folder>/<name>) for each file;
\* fails (logged) when the folder is missing or the name is taken
LinkToFolder(w, fnm, files) ==
    IF fnm \in w.disk /\ fnm \in AlbumNames
    THEN [w EXCEPT !.links[fnm] = @ \cup {pi.File : pi \in files}]
    ELSE w

\* RenameFile, the loop over Folders from index i on
RECURSIVE RenameInFolders(_, _, _, _)
RenameInFolders(w, i, oldnm, newnm) ==
    IF i > Len(w.Folders) THEN w
    ELSE IF ~w.FolderFiles.nil /\ i > Len(w.FolderFiles.maps)
    THEN [w EXCEPT !.crashed = TRUE]   \* index out of range
    ELSE LET fld == w.Folders[i]
             rename == IF ~w.FolderFiles.nil
                       THEN oldnm \in w.FolderFiles.maps[i]
                       ELSE oldnm \in w.links[fld]
             w1 == IF rename
                   THEN [w EXCEPT !.links[fld] = (@ \ {oldnm}) \cup {newnm}]
                   ELSE w
         IN RenameInFolders(w1, i + 1, oldnm, newnm)

\* RenameFile: renames the file in All and its link in every folder
RenameFile(w, oldnm, newnm) ==
    RenameInFolders([w EXCEPT !.all = OsRename(w.all, oldnm, newnm)],
                    1, oldnm, newnm)

\* DeleteFromFolders that leaves the links where they are
DeleteFromFolders_keep(w, fn) == w

\* DeleteFromFolders: os.Remove(<folder>/<name>) in every entry of Folders
DeleteFromFolders(w, fn) ==
    [w EXCEPT !.links =
        [f \in DOMAIN @ |->
            IF \E i \in 1..Len(w.Folders) : w.Folders[i] = f
            THEN @[f] \ {fn} ELSE @[f]]]

\* TrashFiles, one file, whose os.Rename fails: only the links are removed
TrashOne_stay(w, pi) == DeleteFromFolders(w, pi.File)

\* TrashFiles, one file: os.Rename(All/<name>, Trash/<name>), then the links
TrashOne(w, pi) ==
    LET fn == pi.File
        w1 == IF fn \in DOMAIN w.all
              THEN [w EXCEPT !.trash = With(@, fn, w.all[fn]),
                             !.all = Without(@, fn)]
              ELSE w
    IN DeleteFromFolders(w1, fn)

RECURSIVE TrashSeq(_, _)
TrashSeq(w, files) ==
    IF files = <<>> THEN w
    ELSE TrashSeq(TrashOne(w, Head(files)), Tail(files))

\* TrashFiles: moves the files from All to Trash and removes their links.
\* Does not delete from AllInfo or delete the thumbnail.
TrashFiles(w, files) ==
    TrashSeq([w EXCEPT !.disk = @ \cup {"Trash"}], SetToSeq(files))

\* UntrashFiles, one file, whose os.Rename fails
UntrashOne_stay(w, pi) == w

\* UntrashFiles, one file: os.Rename(Trash/<name>, All/<name>)
UntrashOne(w, pi) ==
    LET fn == pi.File
    IN IF fn \in DOMAIN w.trash
       THEN [w EXCEPT !.all = With(@, fn, w.trash[fn]),
                      !.trash = Without(@, fn)]
       ELSE w

RECURSIVE UntrashSeq(_, _)
UntrashSeq(w, files) ==
    IF files = <<>> THEN w
    ELSE UntrashSeq(UntrashOne(w, Head(files)), Tail(files))

\* UntrashFiles: moves the files from Trash to All
UntrashFiles(w, files) ==
    UntrashSeq([w EXCEPT !.disk = @ \cup {"Trash"}], SetToSeq(files))

\* DeleteInFolderOne that keeps the thumbnail and the AllInfo entry
DeleteInFolderOne_keep(w, fld, pi) ==
    LET fn == pi.File
    IN IF fld = "Trash"
       THEN [w EXCEPT !.trash = IF fn \in DOMAIN @ THEN Without(@, fn) ELSE @]
       ELSE IF fld \in AlbumNames
       THEN [w EXCEPT !.links[fld] = @ \ {fn}]
       ELSE [w EXCEPT !.all = IF fn \in DOMAIN @ THEN Without(@, fn) ELSE @]

\* DeleteInFolder, one file: removes <fld>/<name>; in Trash also the
\* thumbnail and the AllInfo entry under the file's base name
DeleteInFolderOne(w, fld, pi) ==
    LET fn == pi.File
        w1 == IF fld = "Trash"
              THEN [w EXCEPT !.trash = IF fn \in DOMAIN @
                                       THEN Without(@, fn) ELSE @]
              ELSE IF fld \in AlbumNames
              THEN [w EXCEPT !.links[fld] = @ \ {fn}]
              ELSE [w EXCEPT !.all = IF fn \in DOMAIN @
                                     THEN Without(@, fn) ELSE @]
    IN IF fld = "Trash"
       THEN [w1 EXCEPT !.thumbs = @ \ {fn.base},
                       !.AllInfo = IF fn.base \in DOMAIN @
                                   THEN Without(@, fn.base) ELSE @]
       ELSE w1

RECURSIVE DeleteInFolderSeq(_, _, _)
DeleteInFolderSeq(w, fld, files) ==
    IF files = <<>> THEN w
    ELSE DeleteInFolderSeq(DeleteInFolderOne(w, fld, Head(files)), fld,
                           Tail(files))

\* DeleteInFolder: deletes the entries of the files in the folder
DeleteInFolder(w, fld, files) == DeleteInFolderSeq(w, fld, SetToSeq(files))

\* ThumbGen: a thumbnail is made when the record's file opens
ThumbGen(w, k) ==
    IF w.AllInfo[k].File \in DOMAIN w.all
    THEN [w EXCEPT !.thumbs = @ \cup {k}]
    ELSE w

\* RenameAsJpeg: fills FolderFiles when nil, renames <base>.<ext> to
\* <base>.jpg in All and in the folders, and sets the record's File
RenameAsJpeg(w, k) ==
    LET w1 == IF w.FolderFiles.nil THEN GetFolderFiles(w) ELSE w
        fnb == w.AllInfo[k].File
        nfn == Mk(fnb.base, "jpg")
        w2 == RenameFile(w1, fnb, nfn)
    IN [w2 EXCEPT !.AllInfo[k].File = nfn]

\* the content of a file without embedded metadata
NoExif(c) == [c EXCEPT !.date = 0, !.orient = NoOrient, !.num = 0]

\* UpdateExif: the tags of raw with every field set that differs between the
\* record and the comparison record parsed from raw; updt tells whether any
\* did, and then DateTime is stamped with the current time
UpdateExif(pi, raw) ==
    LET ci == ParseRawExif(NewInfoForFile(pi.File, raw), raw)
        updt == \/ ci.DateTaken # pi.DateTaken
                \/ ci.Number # pi.Number
                \/ ci.Orient # pi.Orient
    IN [ib |-> [date |-> IF ci.DateTaken # pi.DateTaken THEN pi.DateTaken
                         ELSE IF raw.date # 0 THEN raw.date
                         ELSE IF updt THEN WriteTime ELSE 0,
                num |-> IF ci.Number # pi.Number THEN pi.Number ELSE raw.num,
                orient |-> IF ci.Orient # pi.Orient THEN pi.Orient
                           ELSE raw.orient],
        updt |-> updt]

\* the Jpeg file written with the tags of the builder
JpegOf(ib) ==
    [fmt |-> "Jpeg", date |-> ib.date, orient |-> ib.orient, num |-> ib.num,
     mtime |-> WriteTime]

\* SaveJpegUpdated: rewrites the file's metadata when UpdateExif reports a
\* change; a file that does not open or does not parse as Jpeg is left alone
SaveJpegUpdated(w, k) ==
    LET pi == w.AllInfo[k]
        fn == pi.File
    IN IF fn \notin DOMAIN w.all THEN w
       ELSE IF w.all[fn].fmt # "Jpeg" THEN w
       ELSE IF ~UpdateExif(pi, w.all[fn]).updt THEN w
       ELSE [w EXCEPT !.all[fn] = JpegOf(UpdateExif(pi, w.all[fn]).ib)]

\* SaveJpegNew: a new Jpeg with the metadata UpdateExif builds from nothing
SaveJpegNew(w, k) ==
    LET pi == w.AllInfo[k]
        fn == pi.File
    IN IF fn \in DOMAIN w.all
       THEN [w EXCEPT !.all[fn] = JpegOf(UpdateExif(pi, NoExif(@)).ib)]
       ELSE w

\* SaveJpegUpdatedExif: a new Jpeg with the file's metadata, updated
SaveJpegUpdatedExif(w, k) ==
    LET pi == w.AllInfo[k]
        fn == pi.File
    IN IF fn \in DOMAIN w.all
       THEN [w EXCEPT !.all[fn] = JpegOf(UpdateExif(pi, @).ib)]
       ELSE w

\* SaveExifFile: a file that is not a Jpeg is renamed and saved as one
SaveExifFile(w, k) ==
    LET pi == w.AllInfo[k]
    IN IF pi.Sup # "Jpeg"
       THEN IF pi.File \notin DOMAIN w.all THEN w   \* OpenImage fails
            ELSE ThumbGen(SaveJpegNew(RenameAsJpeg(w, k), k), k)
       ELSE ThumbGen(SaveJpegUpdated(w, k), k)

\* picinfo.SaveImage: the pixels alone, in the format of the extension
SaveImage(w, fn) ==
    [w EXCEPT !.all[fn] = [fmt |-> SupportedFromFile(fn), date |-> 0,
                           orient |-> NoOrient, num |-> 0,
                           mtime |-> WriteTime]]

\* RotateImage: through the Orientation tag for a Jpeg and +/-90 or 180,
\* otherwise the pixels are rotated and the file is saved again
RotateImage(w, k, deg) ==
    LET pi == w.AllInfo[k]
        non90 == deg # 90 /\ deg # -90 /\ deg # 180
    IN IF non90 \/ pi.Sup # "Jpeg"
       THEN IF pi.File \notin DOMAIN w.all THEN w   \* OpenImage fails
            ELSE ThumbGen(IF pi.Sup = "Jpeg" THEN SaveJpegUpdatedExif(w, k)
                          ELSE SaveImage(w, pi.File), k)
       ELSE SaveExifFile([w EXCEPT !.AllInfo[k].Orient = Rotate(@, deg)], k)

\* SetDateTaken: sets the record's date and saves the metadata
SetDateTaken(w, k, date) ==
    SaveExifFile([w EXCEPT !.AllInfo[k].DateTaken = date], k)

\* the names a folder lists as pictures (a dangling link does not open)
Listed(w, fld) ==
    IF fld = "All" THEN DOMAIN w.all
    ELSE IF fld = "Trash" THEN DOMAIN w.trash
    ELSE {nm \in w.links[fld] : nm \in DOMAIN w.all}

ContentAt(w, fld, nm) == IF fld = "Trash" THEN w.trash[nm] ELSE w.all[nm]

\* the record a reconciliation makes of a file: the metadata decoded from
\* scratch and the burst number recovered from the canonical file name
InfoFromFile(nm, c) ==
    SetFileThumbFmBase([OpenNewInfo(nm, c) EXCEPT !.Number = nm.base[2]],
                       nm.base)

\* DirInfo: reconciles the folder with AllInfo: a file whose key is in
\* the store keeps its record, any other file is processed in full: its
\* record is made and merged into the store, its thumbnail generated
DirInfo(w, fld) ==
    LET ls == Listed(w, fld)
        new == {nm.base : nm \in ls} \ DOMAIN w.AllInfo
        FileOf(b) == CHOOSE nm \in ls : nm.base = b
    IN [w EXCEPT
          !.AllInfo = [b \in DOMAIN @ \cup new |->
                         IF b \in DOMAIN @ THEN @[b]
                         ELSE InfoFromFile(FileOf(b),
                                           ContentAt(w, fld, FileOf(b)))],
          !.thumbs = @ \cup new]

\* the bases in use: store keys and raw file names in All
UsedBases(w) == DOMAIN w.AllInfo \cup {nm.base : nm \in DOMAIN w.all}

\* UniqueNameNumber: the canonical name of the date with the smallest
\* burst number that no store key and no file uses
UniqueNameNumber(w, dt) ==
    LET free == {n \in Nums : <<dt, n>> \notin UsedBases(w)}
    IN CHOOSE n \in free : \A m \in free : n <= m

HasUniqueName(w, dt) == \E n \in Nums : <<dt, n>> \notin UsedBases(w)

\* Duplicate: copies the file and the thumbnail under a new unique name,
\* adds the record, links the copy into the album being viewed
Duplicate(w, k, fld) ==
    LET pi == w.AllInfo[k]
        n == UniqueNameNumber(w, pi.DateTaken)
        nfn == <<pi.DateTaken, n>>
        npi == SetFileThumbFmBase([pi EXCEPT !.Number = n], nfn)
        w1 == IF pi.File \in DOMAIN w.all
              THEN [w EXCEPT !.all = With(@, npi.File,
                                  [w.all[pi.File] EXCEPT !.mtime = WriteTime])]
              ELSE w
        w2 == [w1 EXCEPT !.thumbs = IF k \in @ THEN @ \cup {nfn} ELSE @,
                         !.AllInfo = With(@, nfn, npi)]
        w3 == IF fld # "All" THEN LinkToFolder(w2, fld, {npi}) ELSE w2
    IN DirInfo(w3, fld)

(***************************************************************************)
(* The handlers of PixView.                                                *)
(***************************************************************************)
\* bound of a selection or of a paste
MaxSel == 2

\* CheckCur: the keys of the pictures the folder being viewed shows
Shown == {k \in DOMAIN AllInfo : AllInfo[k].File \in Listed(W, Folder)}

\* CheckSel: a selection in the grid
Selections == {S \in SUBSET Shown : S # {} /\ Cardinality(S) <= MaxSel}

\* the keys of pasted file names that have a record
Pasted == {S \in SUBSET DOMAIN AllInfo : S # {} /\ Cardinality(S) <= MaxSel}

Recs(S) == {AllInfo[k] : k \in S}

\* the renames RenameAsJpeg makes for the records S: <<old, new>>
RenamesOf(S) ==
    {<<AllInfo[k].File, Mk(AllInfo[k].File.base, "jpg")>> :
        k \in {x \in S : /\ AllInfo[x].Sup # "Jpeg"
                         /\ AllInfo[x].File \in DOMAIN all}}

\* what lastOp records: the operation, the file names it was given and the
\* renames it made (empty for the handlers no property speaks of)
Op(name, files, renames) == [op |-> name, files |-> files, renames |-> renames]

Other == Op("other", {}, {})

\* no thumbnail update is running
IdleThumbs ==
    /\ Images = <<>> /\ ThumbFiles = <<>> /\ Thumb0 = <<>> /\ Thumbs = <<>>
    /\ ncp = 1 /\ mainPc = "done" /\ spawnI = 0 /\ spawnSt = 0
    /\ thr = <<>> /\ WaitGp = 0 /\ wrote = <<>> /\ regen = {}
    /\ Info = <<>> /\ Prev = <<>>

\* the initial library: OpenAllInfo and the reconciliation of All are done
InitFiles ==
    [n \in {Mk(<<1, 0>>, "jpg"), Mk(<<2, 0>>, "png"), Mk(<<1, 1>>, "png")} |->
        IF n.ext = "jpg"
        THEN [fmt |-> "Jpeg", date |-> 1, orient |-> Rotated0, num |-> 0,
              mtime |-> 1]
        ELSE [fmt |-> "Png", date |-> 0, orient |-> NoOrient, num |-> 0,
              mtime |-> n.base[1]]]

InitFS ==
    /\ \E S \in SUBSET DOMAIN InitFiles :
          /\ S # {} /\ Cardinality(S) <= MaxPics
          /\ all = [n \in S |-> InitFiles[n]]
    /\ trash = <<>>
    /\ disk = {"All", "Trash", "A"}
    /\ \E L \in SUBSET DOMAIN all :
          links = [f \in AlbumNames |-> IF f = "A" /\ f \in disk THEN L ELSE {}]
    /\ thumbs = {n.base : n \in DOMAIN all}
    /\ Folders = UpdateFolders([disk |-> disk, Folders |-> <<>>]).Folders
    /\ FolderFiles = NilFolderFiles
    /\ AllInfo = [b \in {n.base : n \in DOMAIN all} |->
                    LET n == CHOOSE m \in DOMAIN all : m.base = b
                    IN InfoFromFile(n, all[n])]
    /\ Folder = "All"
    /\ crashed = FALSE
    /\ nops = 0
    /\ lastOp = Other
    /\ IdleThumbs
    /\ IdleSave /\ IdleProg /\ IdleFn

\* FileNodeSelected: a folder is selected in the tree
FileNodeSelected ==
    /\ Running
    /\ \E f \in disk :
          /\ Folder' = f
          /\ SetW(DirInfo(W, f))
          /\ lastOp' = Other

\* NewFolder: os.Mkdir and UpdateFolders
NewFolder ==
    /\ Running
    /\ \E f \in AlbumNames \cup {"Trash"} :
          /\ SetW(UpdateFolders([W EXCEPT !.disk = @ \cup {f}]))
          /\ lastOp' = Other
    /\ UNCHANGED Folder

\* FileTreeView.PixPaste: the pasted pictures that have a record go to
\* UntrashFiles (all), TrashFiles (trash) or LinkToFolder (any other folder)
PixPaste ==
    /\ Running
    /\ \E tfn \in disk, S \in Pasted :
          /\ SetW(CASE tfn = "All" -> UntrashFiles(W, Recs(S))
                    [] tfn = "Trash" -> TrashFiles(W, Recs(S))
                    [] OTHER -> LinkToFolder(W, tfn, Recs(S)))
          /\ lastOp' = IF tfn = "Trash"
                       THEN Op("TrashFiles", {AllInfo[k].File : k \in S}, {})
                       ELSE Other
    /\ UNCHANGED Folder

\* DeleteCurPic and the grid's ImgGridDeleted: in All the picture goes to
\* the trash, in any other folder its entry is deleted
DeleteCurPic ==
    /\ Running
    /\ \E k \in Shown :
          /\ SetW(IF Folder = "All" THEN TrashFiles(W, {AllInfo[k]})
                  ELSE DeleteInFolder(W, Folder, {AllInfo[k]}))
          /\ lastOp' = CASE Folder = "All" ->
                              Op("TrashFiles", {AllInfo[k].File}, {})
                         [] Folder = "Trash" ->
                              Op("DeleteInTrash", {AllInfo[k].File}, {})
                         [] OTHER -> Other
    /\ UNCHANGED Folder

\* EmptyTrash: every picture listed in Trash is deleted for good
EmptyTrash ==
    /\ Running
    /\ LET w1 == DirInfo(W, "Trash")
           info == {w1.AllInfo[nm.base] : nm \in Listed(w1, "Trash")}
       IN /\ SetW(DirInfo(DeleteInFolder(w1, "Trash", info), "Trash"))
          /\ lastOp' = Op("DeleteInTrash", {pi.File : pi \in info}, {})
    /\ Folder' = "Trash"

\* Duplicate, from the grid's menu, in All or in an album
DuplicatePic ==
    /\ Running
    /\ Folder # "Trash"
    /\ Cardinality(DOMAIN all \cup DOMAIN trash) < MaxPics
    /\ \E k \in Shown :
          /\ HasUniqueName(W, AllInfo[k].DateTaken)
          /\ SetW(Duplicate(W, k, Folder))
          /\ lastOp' = Other
    /\ UNCHANGED Folder

\* SetDateTakenCur: the date of the current picture; FolderFiles is kept
SetDateTakenCur ==
    /\ Running
    /\ \E k \in Shown, date \in Dates :
          /\ SetW(DirInfo(SetDateTaken(W, k, date), Folder))
          /\ lastOp' = Op("RenameFile", {}, RenamesOf({k}))
    /\ UNCHANGED Folder

RECURSIVE SetDateTakenSeq(_, _, _, _)
SetDateTakenSeq(w, ks, cdt, inc) ==
    IF ks = <<>> THEN w
    ELSE SetDateTakenSeq(SetDateTaken(w, Head(ks), cdt), Tail(ks),
                         cdt + inc, inc)

\* SetDateTakenSel: the dates of the selection, inc apart; FolderFiles is
\* reset before the reconciliation
SetDateTakenSel ==
    /\ Running
    /\ \E S \in Selections, date \in Dates, inc \in {0, 1} :
          /\ date + inc * (Cardinality(S) - 1) \in Dates
          /\ SetW(DirInfo([SetDateTakenSeq(W, SetToSeq(S), date, inc)
                              EXCEPT !.FolderFiles = NilFolderFiles], Folder))
          /\ lastOp' = Op("RenameFile", {}, RenamesOf(S))
    /\ UNCHANGED Folder

RECURSIVE RotateSeq(_, _, _)
RotateSeq(w, ks, deg) ==
    IF ks = <<>> THEN w
    ELSE RotateSeq(RotateImage(w, Head(ks), deg), Tail(ks), deg)

\* RotateSel (RotateLeftSel, RotateRightSel): rotates the selection
RotateSel ==
    /\ Running
    /\ \E S \in Selections, deg \in {90, -90, 180} :
          /\ SetW(DirInfo([RotateSeq(W, SetToSeq(S), deg)
                              EXCEPT !.FolderFiles = NilFolderFiles], Folder))
          /\ lastOp' = Other
    /\ UNCHANGED Folder

RECURSIVE SaveExifSeq(_, _)
SaveExifSeq(w, ks) ==
    IF ks = <<>> THEN w
    ELSE SaveExifSeq(SaveExifFile(w, Head(ks)), Tail(ks))

\* SaveExifSel: saves the metadata of the selection
SaveExifSel ==
    /\ Running
    /\ \E S \in Selections :
          /\ SetW(DirInfo([SaveExifSeq(W, SetToSeq(S))
                              EXCEPT !.FolderFiles = NilFolderFiles], Folder))
          /\ lastOp' = Op("RenameFile", {}, RenamesOf(S))
    /\ UNCHANGED Folder

Init == InitFS

Next ==
    \/ FileNodeSelected
    \/ NewFolder
    \/ PixPaste
    \/ DeleteCurPic
    \/ EmptyTrash
    \/ DuplicatePic
    \/ SetDateTakenCur
    \/ SetDateTakenSel
    \/ RotateSel
    \/ SaveExifSel

vars == <<fsVars, thVars, svVars, ppVars, fnVars>>

Spec == Init /\ [][Next]_vars

(***************************************************************************)
(* Properties of the file operations (under Spec).                         *)
(***************************************************************************)
\* C1: the record store is a pure derivative of the picture files: after
\* any sequence of operations, every record of a file in All equals, field
\* for field, the record a reconciliation makes from the file alone (as
\* after info.json and the thumbnails are deleted).
C1_StoreIsDerivative ==
    \A nm \in DOMAIN all :
        nm.base \in DOMAIN AllInfo =>
            Persisted(AllInfo[nm.base]) = Persisted(InfoFromFile(nm, all[nm]))

\* C3: after any sequence of the file operations, every entry of an album
\* is a link whose target ../All/<name> exists, and Folders never contains
\* All or Trash.
C3_AlbumLinksResolve ==
    /\ \A f \in AlbumNames : \A nm \in links[f] : nm \in DOMAIN all
    /\ \A i \in 1..Len(Folders) : Folders[i] \notin {"All", "Trash"}

\* C4: RenameFile(old, new) leaves every album that held a link old with a
\* link new and without a link old, and every other album unchanged, also
\* when FolderFiles was filled earlier and links or folders were added since.
C4_RenameRetargetsLinks ==
    [][\A r \in lastOp'.renames :
          r[1] # r[2] =>
             \A f \in AlbumNames :
                ((r[1] \in links[f]) =>
                    (r[2] \in links'[f] /\ r[1] \notin links'[f]))
                /\
                ((r[1] \notin links[f]) =>
                    (links'[f] \cap {r[1], r[2]} = links[f] \cap {r[2]}))]_vars

\* C5: TrashFiles moves each of its files from All to Trash, no album holds
\* a link with a trashed name afterwards, and the files and links of every
\* other picture are unchanged.
C5_TrashFilesFrame ==
    [][lastOp'.op = "TrashFiles" =>
          /\ \A fn \in lastOp'.files :
                fn \in DOMAIN all =>
                   /\ fn \notin DOMAIN all'
                   /\ fn \in DOMAIN trash' /\ trash'[fn] = all[fn]
          /\ \A f \in AlbumNames : links'[f] = links[f] \ lastOp'.files
          /\ \A fn \in DOMAIN all \ lastOp'.files :
                fn \in DOMAIN all' /\ all'[fn] = all[fn]
          /\ \A fn \in DOMAIN trash \ lastOp'.files :
                fn \in DOMAIN trash' /\ trash'[fn] = trash[fn]]_vars

\* C5, its case: a linked picture was trashed while another one stays linked
C5_Witness ==
    /\ lastOp.op = "TrashFiles"
    /\ \E fn \in lastOp.files : fn \in DOMAIN trash
    /\ \E f \in AlbumNames : \E nm \in links[f] : nm \in DOMAIN all

\* C6 (as stated): the record of a picture is removed from the store when
\* the picture is trashed or permanently deleted.
C6_RecordRemovedOnTrashOrDelete ==
    [][lastOp'.op \in {"TrashFiles", "DeleteInTrash"} =>
          \A fn \in lastOp'.files : fn.base \notin DOMAIN AllInfo']_vars

\* C6 (amended): the record of a picture is removed from the store when the
\* picture is permanently deleted from Trash; TrashFiles keeps the record
\* as it is.
C6_RecordRemovedOnDelete ==
    [][/\ lastOp'.op = "DeleteInTrash" =>
             \A fn \in lastOp'.files : fn.base \notin DOMAIN AllInfo'
       /\ lastOp'.op = "TrashFiles" =>
             \A fn \in lastOp'.files :
                fn.base \in DOMAIN AllInfo =>
                   /\ fn.base \in DOMAIN AllInfo'
                   /\ AllInfo'[fn.base] = AllInfo[fn.base]]_vars

\* C6, its case: a picture was deleted from Trash and another record stays
C6_Witness ==
    /\ lastOp.op = "DeleteInTrash"
    /\ lastOp.files # {}
    /\ \A fn \in lastOp.files :
          fn \notin DOMAIN trash /\ fn.base \notin DOMAIN AllInfo
    /\ DOMAIN AllInfo # {}

(***************************************************************************)
(* UniquifyBaseNames, run when the window opens (SpecUniq).                *)
(*   Here a base name is a sequence: a stem followed by the numbers of     *)
(*   its _N suffixes, <<"a", 1>> standing for a_1.                         *)
(***************************************************************************)
\* files in All when the program starts
MaxUniq == 4

UniqBases == {<<"a">>, <<"a", 1>>, <<"a", 2>>}
UniqNames == [base : UniqBases, ext : {"jpg", "png", "gif"}]
UniqContent ==
    [fmt |-> "Png", date |-> 0, orient |-> NoOrient, num |-> 0, mtime |-> 1]

\* the complete set of base names in All
BasesOf(w) == {nm.base : nm \in DOMAIN w.all}

\* the smallest N for which <base>_N is no base name in All
UniqueSuffix(w, b) ==
    CHOOSE n \in 1..(Cardinality(DOMAIN w.all) + 1) :
        /\ Append(b, n) \notin BasesOf(w)
        /\ \A m \in 1..(n - 1) : Append(b, m) \in BasesOf(w)

\* UniquifyBaseNames over the files in listing order: the first file of a
\* base name keeps it, every later one is renamed to <base>_N, in All and
\* in the album folders; log collects the renames made
RECURSIVE UniquifySeq(_, _, _, _)
UniquifySeq(w, order, seen, log) ==
    IF order = <<>> THEN [w |-> w, log |-> log]
    ELSE LET nm == Head(order)
         IN IF nm.base \in seen
            THEN LET new == Mk(Append(nm.base, UniqueSuffix(w, nm.base)),
                               nm.ext)
                 IN UniquifySeq(RenameFile(w, nm, new), Tail(order), seen,
                                log \cup {[old |-> nm, new |-> new,
                                           bases |-> BasesOf(w)]})
            ELSE UniquifySeq(w, Tail(order), seen \cup {nm.base}, log)

UniquifyBaseNames(w, order) == UniquifySeq(w, order, {}, {})

\* the orders in which a directory listing may give the files
Listings(S) ==
    {p \in [1..Cardinality(S) -> S] :
        \A i, j \in 1..Cardinality(S) : p[i] = p[j] => i = j}

InitUniq ==
    /\ \E S \in SUBSET UniqNames :
          /\ S # {} /\ Cardinality(S) <= MaxUniq
          /\ all = [n \in S |-> UniqContent]
    /\ trash = <<>>
    /\ disk = {"All", "Trash", "A"}
    /\ \E L \in SUBSET DOMAIN all :
          links = [f \in AlbumNames |-> IF f = "A" THEN L ELSE {}]
    /\ thumbs = {}
    /\ Folders = UpdateFolders([disk |-> disk, Folders |-> <<>>]).Folders
    /\ FolderFiles = NilFolderFiles
    /\ AllInfo = <<>>
    /\ Folder = "All"
    /\ crashed = FALSE
    /\ nops = 0
    /\ lastOp = Other
    /\ IdleThumbs
    /\ IdleSave /\ IdleProg /\ IdleFn

\* GoPixViewWindow: the base names are made unique before the store is read
GoPixViewWindow ==
    /\ Running
    /\ \E order \in Listings(DOMAIN all) :
          LET r == UniquifyBaseNames(W, order)
          IN /\ SetW(r.w)
             /\ lastOp' = Op("UniquifyBaseNames", DOMAIN all, r.log)
    /\ UNCHANGED Folder

NextUniq == GoPixViewWindow

SpecUniq == InitUniq /\ [][NextUniq]_vars

\* C2: after UniquifyBaseNames the base names of the files in All are
\* pairwise distinct, also when names ending in _1 or _2 were there before,
\* and each renamed file got <base>_N for the smallest N that was no base
\* name of the complete set.
C2_BaseNamesUnique ==
    lastOp.op = "UniquifyBaseNames" =>
        /\ \A m, n \in DOMAIN all : m.base = n.base => m = n
        /\ Cardinality(DOMAIN all) = Cardinality(lastOp.files)
        /\ \A r \in lastOp.renames :
              \E n \in 1..(Cardinality(r.bases) + 1) :
                  /\ r.new = Mk(Append(r.old.base, n), r.old.ext)
                  /\ Append(r.old.base, n) \notin r.bases
                  /\ \A m \in 1..(n - 1) : Append(r.old.base, m) \in r.bases

\* C2, its case: a.* had to skip the a_1 already there, and a_1.* was a
\* group of its own
C2_Witness ==
    /\ lastOp.op = "UniquifyBaseNames"
    /\ \E r \in lastOp.renames :
          r.old.base = <<"a">> /\ r.new.base = <<"a", 2>>
    /\ \E r \in lastOp.renames : r.old.base = <<"a", 1>>

(***************************************************************************)
(* ThumbUpdt and its goroutines ThumbUpdtThr (SpecThumb).                  *)
(*   A file of the folder is [ext, stat, decodes, date, mtime]: whether    *)
(*   os.Stat and imgio.Open succeed on it, its embedded date (0: none)     *)
(*   and its modification time.                                            *)
(***************************************************************************)
\* files in the folder
MaxFiles == 3
\* CPUs, so goroutines
MaxCPU == 3
\* the clock when the update runs, which is the time of what it writes
Now == WriteTime

\* a picture, a file that does not decode, a link whose target is gone
\* (os.Stat fails) and a picture of a type no thumbnail is made for
ThumbKinds ==
    {[ext |-> "jpg", stat |-> TRUE, decodes |-> TRUE],
     [ext |-> "jpg", stat |-> TRUE, decodes |-> FALSE],
     [ext |-> "jpg", stat |-> FALSE, decodes |-> FALSE],
     [ext |-> "gif", stat |-> TRUE, decodes |-> TRUE]}

FileOf(kind, date, mtime) ==
    [ext |-> kind.ext, stat |-> kind.stat, decodes |-> kind.decodes,
     date |-> date, mtime |-> mtime]

\* ThumbFresh that takes a thumbnail of the file's own time for stale
ThumbFresh_strict(tht, ft) == ft < tht

\* !ifn.ModTime().Before(iffn.ModTime()): the thumbnail is not older
ThumbFresh(tht, ft) == ~(tht < ft)

\* ThumbUpdtFile that makes the thumbnail of every file that decodes
ThumbUpdtFile_always(f, th, now) ==
    IF f.stat /\ f.decodes
    THEN [thumb |-> now, slot |-> TRUE, regen |-> TRUE]
    ELSE [thumb |-> th, slot |-> th # 0, regen |-> FALSE]

\* ThumbUpdtThr, the body of the loop for one file with thumbnail time th
\* (0: none): the thumbnail's new time, whether the slot of Thumbs is set
\* and whether the thumbnail was written
ThumbUpdtFile(f, th, now) ==
    IF ~(f.ext = "jpg" \/ f.ext = "jpeg" \/ f.ext = "png")
    THEN [thumb |-> th, slot |-> FALSE, regen |-> FALSE]
    ELSE IF ~f.stat
    THEN [thumb |-> th, slot |-> FALSE, regen |-> FALSE]
    ELSE IF th # 0 /\ ThumbFresh(th, f.mtime)
    THEN [thumb |-> th, slot |-> TRUE, regen |-> FALSE]
    ELSE IF ~f.decodes
    THEN [thumb |-> th, slot |-> th # 0, regen |-> FALSE]
    ELSE [thumb |-> now, slot |-> TRUE, regen |-> TRUE]

\* RangeEnd without the special case of the last goroutine
RangeEnd_even(i, st, nper, n, nfl) == st + nper

\* ThumbUpdt: ed of the range of goroutine i (0-based) of n
RangeEnd(i, st, nper, n, nfl) == IF i = n - 1 THEN nfl ELSE st + nper

\* the library is not touched
IdleFS ==
    /\ all = <<>> /\ trash = <<>> /\ disk = {"All", "Trash"}
    /\ links = [f \in AlbumNames |-> {}] /\ thumbs = {}
    /\ Folders = <<>> /\ FolderFiles = NilFolderFiles /\ AllInfo = <<>>
    /\ Folder = "All" /\ crashed = FALSE /\ nops = 0 /\ lastOp = Other

\* ThumbUpdt up to its loop: the listing, the empty result slice, NumCPU
InitThumb ==
    /\ IdleFS
    /\ IdleSave /\ IdleProg /\ IdleFn
    /\ \E n \in 0..MaxFiles :
          /\ \E ks \in [1..n -> ThumbKinds] :
                Images = [i \in 1..n |-> FileOf(ks[i], 0, MaxDate)]
          /\ ThumbFiles \in [1..n -> 0..MaxDate]
          /\ Thumbs = [i \in 1..n |-> FALSE]
          /\ wrote = [i \in 1..n |-> {}]
    /\ Thumb0 = ThumbFiles
    /\ ncp \in 1..MaxCPU
    /\ mainPc = "list" /\ spawnI = 0 /\ spawnSt = 0
    /\ thr = <<>> /\ WaitGp = 0 /\ regen = {}
    /\ Info = <<>> /\ Prev = <<>>

\* ThumbUpdt has no result: an error of dirs.AllFiles is printed
ThumbUpdtErr == [err |-> "printed", returned |-> FALSE]

\* ThumbUpdt: dirs.AllFiles(fdir) lists the folder, or fails and ThumbUpdt
\* returns
ThumbUpdtList ==
    /\ mainPc = "list"
    /\ \/ mainPc' = "go" /\ UNCHANGED res
       \/ mainPc' = "done" /\ res' = ThumbUpdtErr
    /\ UNCHANGED <<Images, ThumbFiles, Thumb0, Thumbs, ncp, spawnI, spawnSt,
                   thr, WaitGp, wrote, regen, Info, Prev, fsVars, svVars,
                   ppVars, arg>>

\* ThumbUpdt: go pv.ThumbUpdtThr(fdir, st, ed)
SpawnGo ==
    /\ mainPc = "go"
    /\ LET nfl == Len(Images)
           nper == nfl \div ncp
           ed == RangeEnd(spawnI, spawnSt, nper, ncp, nfl)
       IN thr' = Append(thr, [st |-> spawnSt, ed |-> ed, i |-> spawnSt,
                              pc |-> "run"])
    /\ mainPc' = "add"
    /\ UNCHANGED <<Images, ThumbFiles, Thumb0, Thumbs, ncp, spawnI, spawnSt,
                   WaitGp, wrote, regen, Info, Prev, fsVars, svVars,
                   ppVars, fnVars>>

\* ThumbUpdt: pv.WaitGp.Add(1); st = ed; i++
SpawnAdd ==
    /\ mainPc = "add"
    /\ WaitGp' = WaitGp + 1
    /\ spawnSt' = thr[Len(thr)].ed
    /\ spawnI' = spawnI + 1
    /\ mainPc' = IF spawnI + 1 < ncp THEN "go" ELSE "wait"
    /\ UNCHANGED <<Images, ThumbFiles, Thumb0, Thumbs, ncp, thr, wrote, regen,
                   Info, Prev, fsVars, svVars,
                   ppVars, fnVars>>

\* ThumbUpdt: pv.WaitGp.Wait() returns when the counter is zero
WaitDone ==
    /\ mainPc = "wait"
    /\ WaitGp = 0
    /\ mainPc' = "done"
    /\ UNCHANGED <<Images, ThumbFiles, Thumb0, Thumbs, ncp, spawnI, spawnSt,
                   thr, WaitGp, wrote, regen, Info, Prev, fsVars, svVars,
                   ppVars, fnVars>>

\* ThumbUpdtThr: one turn of the loop, for file i
ThumbUpdtThrFile ==
    /\ mainPc # "panic"
    /\ \E w \in 1..Len(thr) :
          /\ thr[w].pc = "run" /\ thr[w].i < thr[w].ed
          /\ LET k == thr[w].i + 1
                 r == ThumbUpdtFile(Images[k], ThumbFiles[k], Now)
             IN /\ ThumbFiles' = [ThumbFiles EXCEPT ![k] = r.thumb]
                /\ Thumbs' = [Thumbs EXCEPT ![k] = IF r.slot THEN TRUE ELSE @]
                /\ wrote' = [wrote EXCEPT ![k] = IF r.slot THEN @ \cup {w}
                                                 ELSE @]
                /\ regen' = IF r.regen THEN regen \cup {k} ELSE regen
          /\ thr' = [thr EXCEPT ![w].i = @ + 1]
    /\ UNCHANGED <<Images, Thumb0, ncp, mainPc, spawnI, spawnSt, WaitGp, Info,
                   Prev, fsVars, svVars,
                   ppVars, fnVars>>

\* ThumbUpdtThr: pv.WaitGp.Done() after the loop; a counter that would go
\* negative is a panic
ThumbUpdtThrDone ==
    /\ mainPc # "panic"
    /\ \E w \in 1..Len(thr) :
          /\ thr[w].pc = "run" /\ thr[w].i >= thr[w].ed
          /\ thr' = [thr EXCEPT ![w].pc = "done"]
          /\ IF WaitGp = 0
             THEN mainPc' = "panic" /\ UNCHANGED WaitGp
             ELSE WaitGp' = WaitGp - 1 /\ UNCHANGED mainPc
    /\ UNCHANGED <<Images, ThumbFiles, Thumb0, Thumbs, ncp, spawnI, spawnSt,
                   wrote, regen, Info, Prev, fsVars, svVars,
                   ppVars, fnVars>>

NextThumb ==
    \/ ThumbUpdtList
    \/ SpawnGo
    \/ SpawnAdd
    \/ WaitDone
    \/ ThumbUpdtThrFile
    \/ ThumbUpdtThrDone

SpecThumb == InitThumb /\ [][NextThumb]_vars

\* the loop of some goroutine has been through file k
Processed(k) == \E w \in 1..Len(thr) : thr[w].st < k /\ k <= thr[w].i

\* C9 (as stated): a thumbnail is regenerated if and only if it is missing
\* or older than the source file; in every other case it is left untouched.
C9_RegeneratedIffStale ==
    \A k \in 1..Len(Images) :
        /\ Processed(k) =>
              (k \in regen <=>
                  (Thumb0[k] = 0 \/ Thumb0[k] < Images[k].mtime))
        /\ k \notin regen => ThumbFiles[k] = Thumb0[k]

\* C9 (amended): the thumbnail of a file is regenerated if and only if the
\* file has a supported extension, can be stat'ed and decodes, and the
\* thumbnail is missing or older than the file; in every other case the
\* thumbnail file is left untouched.
C9_RegeneratedIffStaleAndReadable ==
    \A k \in 1..Len(Images) :
        /\ Processed(k) =>
              (k \in regen <=>
                  /\ Images[k].ext \in {"jpg", "jpeg", "png"}
                  /\ Images[k].stat /\ Images[k].decodes
                  /\ (Thumb0[k] = 0 \/ Thumb0[k] < Images[k].mtime))
        /\ ~Processed(k) => k \notin regen
        /\ k \notin regen => ThumbFiles[k] = Thumb0[k]
        /\ k \in regen => ThumbFiles[k] = Now

\* C9, its case: the update is through; one thumbnail was missing and one
\* older and both were made, one of the file's own time was left alone
C9_Witness ==
    /\ mainPc = "done"
    /\ \E j, k, l \in 1..Len(Images) :
          /\ Thumb0[j] = 0 /\ j \in regen
          /\ Thumb0[k] # 0 /\ Thumb0[k] < Images[k].mtime /\ k \in regen
          /\ Thumb0[l] = Images[l].mtime /\ l \notin regen
          /\ \A i \in {j, k, l} :
                Images[i].ext = "jpg" /\ Images[i].stat /\ Images[i].decodes

\* C10: for every number of files and of goroutines the ranges handed out
\* are contiguous, pairwise disjoint and cover exactly [0, N), and a slot
\* of the result slice is written only by the goroutine whose range holds
\* it, so by no two goroutines.
C10_RangesPartition ==
    /\ \A w \in 1..Len(thr) :
          /\ thr[w].st = (IF w = 1 THEN 0 ELSE thr[w - 1].ed)
          /\ thr[w].st <= thr[w].ed /\ thr[w].ed <= Len(Images)
          /\ thr[w].st <= thr[w].i /\ thr[w].i <= thr[w].ed
    /\ Len(thr) = ncp => thr[ncp].ed = Len(Images)
    /\ \A k \in 1..Len(Images) :
          /\ \A w \in wrote[k] : thr[w].st < k /\ k <= thr[w].ed
          /\ Cardinality(wrote[k]) <= 1

\* C10, its case: three files over two goroutines, every slot written
C10_Witness ==
    /\ mainPc = "done"
    /\ Len(Images) = 3 /\ ncp = 2
    /\ wrote[1] = {1} /\ wrote[2] = {2} /\ wrote[3] = {2}

\* a file the update could not make a thumbnail of: os.Stat or the decoding
\* failed
Failed(k) ==
    /\ Images[k].ext \in {"jpg", "jpeg", "png"}
    /\ \/ ~Images[k].stat
       \/ ~Images[k].decodes /\ ~(Thumb0[k] # 0 /\ ~(Thumb0[k] < Images[k].mtime))

\* C14: the failure of one file (os.Stat, opening or decoding) stops no
\* goroutine from going through the rest of its range and from signalling
\* that it is done, and the file is not in the result; when the folder
\* cannot be listed no file is processed and the error is returned to the
\* caller.
C14_FailuresSkipped ==
    /\ \A w \in 1..Len(thr) :
          /\ thr[w].pc = "run" /\ thr[w].i < thr[w].ed =>
                ENABLED ThumbUpdtThrFile \/ mainPc = "panic"
          /\ thr[w].pc = "done" => thr[w].i = thr[w].ed
    /\ \A k \in 1..Len(Images) : (Processed(k) /\ Failed(k)) => ~Thumbs[k]
    /\ res # <<>> =>
          /\ thr = <<>> /\ regen = {} /\ ThumbFiles = Thumb0
          /\ res.returned

\* C11: in every interleaving of the spawning loop and the goroutines,
\* ThumbUpdt gets past WaitGp.Wait() only after every goroutine it started
\* has finished its range, and the counter of WaitGp never drops below zero:
\* the Done of a goroutine comes after the Add that registers it.
C11_BarrierAndCounter ==
    /\ (mainPc = "done" /\ res = <<>>) =>
          /\ Len(thr) = ncp
          /\ \A w \in 1..Len(thr) : thr[w].pc = "done" /\ thr[w].i = thr[w].ed
    /\ mainPc # "panic"
    /\ \A w \in 1..Len(thr) :
          thr[w].pc = "done" => (w < Len(thr) \/ mainPc # "add")

(***************************************************************************)
(* The reconciliation of a folder (SpecDir): DirInfo as a function of the  *)
(* listing, the store and the thumbnails.  File i of the listing has the   *)
(* base name <<i, 0>>, so base names are distinct, as UniquifyBaseNames    *)
(* leaves them.                                                            *)
(***************************************************************************)
NameAt(imgs, i) == Mk(<<i, 0>>, imgs[i].ext)

ContentOf(f) ==
    [fmt |-> "Jpeg", date |-> f.date, orient |-> NoOrient, num |-> 0,
     mtime |-> f.mtime]

\* the sort with the comparison turned around
RECURSIVE InsertByDate_desc(_, _, _)
InsertByDate_desc(s, x, ascending) ==
    IF s = <<>> \/ ~(s[Len(s)].DateTaken < x.DateTaken)
    THEN Append(s, x)
    ELSE Append(InsertByDate_desc(SubSeq(s, 1, Len(s) - 1), x, ascending),
                s[Len(s)])

\* sort.Slice on a short slice is an insertion sort: the element moves
\* down while less(data[j], data[j-1])
RECURSIVE InsertByDate(_, _, _)
InsertByDate(s, x, ascending) ==
    IF s = <<>> \/ ~(IF ascending THEN x.DateTaken < s[Len(s)].DateTaken
                     ELSE s[Len(s)].DateTaken < x.DateTaken)
    THEN Append(s, x)
    ELSE Append(InsertByDate(SubSeq(s, 1, Len(s) - 1), x, ascending),
                s[Len(s)])

\* Pics.SortByDate
RECURSIVE SortByDate(_, _)
SortByDate(pc, ascending) ==
    IF pc = <<>> THEN <<>>
    ELSE InsertByDate(SortByDate(SubSeq(pc, 1, Len(pc) - 1), ascending),
                      pc[Len(pc)], ascending)

\* Pics.Thumbs: th[i] = pc[i].Thumb
PicsThumbs(pc) == [i \in 1..Len(pc) |-> pc[i].Thumb]

\* DirInfo, file i on: a file whose key is in the store and whose
\* thumbnail is there and not older keeps its record; any other file is
\* decoded from scratch, merged into the store, and its thumbnail made if
\* stale or absent; a file that does not parse is dropped
RECURSIVE DirInfoFrom(_, _, _)
DirInfoFrom(imgs, i, acc) ==
    IF i > Len(imgs) THEN acc
    ELSE LET f == imgs[i]
             key == <<i, 0>>
             cached == /\ key \in DOMAIN acc.store
                       /\ acc.tfiles[i] # 0
                       /\ ThumbFresh(acc.tfiles[i], f.mtime)
             parses == f.stat /\ f.decodes
             pi == InfoFromFile(NameAt(imgs, i), ContentOf(f))
             th == ThumbUpdtFile(f, acc.tfiles[i], Now)
         IN DirInfoFrom(imgs, i + 1,
               IF cached
               THEN [acc EXCEPT !.pics = Append(@, acc.store[key])]
               ELSE IF ~parses THEN acc
               ELSE [acc EXCEPT
                        !.pics = Append(@, pi),
                        !.store = With(@, key, pi),
                        !.tfiles[i] = th.thumb,
                        !.regen = IF th.regen THEN @ \cup {i} ELSE @])

\* DirInfo: the records of the folder sorted by date, and their thumbnails
Reconcile(imgs, store, tfiles) ==
    LET r == DirInfoFrom(imgs, 1, [pics |-> <<>>, store |-> store,
                                   tfiles |-> tfiles, regen |-> {}])
        info == SortByDate(r.pics, TRUE)
    IN [Info |-> info, Thumbs |-> PicsThumbs(info), store |-> r.store,
        tfiles |-> r.tfiles, regen |-> r.regen]

\* a folder on a cold start: no store yet, thumbnails of any age, files
\* modified now or stamped with a time the clock has not reached
InitDir ==
    /\ all = <<>> /\ trash = <<>> /\ disk = {"All", "Trash"}
    /\ links = [f \in AlbumNames |-> {}] /\ thumbs = {}
    /\ Folders = <<>> /\ FolderFiles = NilFolderFiles /\ AllInfo = <<>>
    /\ Folder = "All" /\ crashed = FALSE /\ nops = 0 /\ lastOp = Other
    /\ \E n \in 0..MaxFiles :
          /\ \E ks \in [1..n -> {k \in ThumbKinds : k.ext = "jpg" /\ k.stat}],
                ds \in [1..n -> 0..MaxDate],
                ms \in [1..n -> {Now, Now + 1}] :
                Images = [i \in 1..n |-> FileOf(ks[i], ds[i], ms[i])]
          /\ ThumbFiles \in [1..n -> {0, WriteTime - 1, WriteTime}]
    /\ Thumb0 = ThumbFiles
    /\ Thumbs = <<>> /\ ncp = 1 /\ mainPc = "done" /\ spawnI = 0
    /\ spawnSt = 0 /\ thr = <<>> /\ WaitGp = 0 /\ wrote = <<>> /\ regen = {}
    /\ Info = <<>> /\ Prev = <<>>
    /\ IdleSave /\ IdleProg /\ IdleFn

\* the folder is selected (again): DirInfo
DirInfoAgain ==
    /\ Running
    /\ LET r == Reconcile(Images, AllInfo, ThumbFiles)
       IN /\ Info' = r.Info
          /\ Thumbs' = r.Thumbs
          /\ AllInfo' = r.store
          /\ ThumbFiles' = r.tfiles
          /\ regen' = r.regen
    /\ Prev' = IF nops = 0 THEN <<>>
               ELSE [Info |-> Info, Thumbs |-> Thumbs, regen |-> regen]
    /\ nops' = nops + 1
    /\ UNCHANGED <<all, trash, disk, links, thumbs, Folders, FolderFiles,
                   Folder, crashed, lastOp, Images, Thumb0, ncp, mainPc,
                   spawnI, spawnSt, thr, WaitGp, wrote, svVars, ppVars,
                   fnVars>>

NextDir == DirInfoAgain

SpecDir == InitDir /\ [][NextDir]_vars

C8_SortedAligned ==
    nops > 0 =>
        /\ \A i \in 1..(Len(Info) - 1) :
              Info[i].DateTaken <= Info[i + 1].DateTaken
        /\ {Info[i].File : i \in 1..Len(Info)} =
              {NameAt(Images, k) : k \in {j \in 1..Len(Images) :
                                            Images[j].decodes}}
        /\ Len(Info) = Cardinality({j \in 1..Len(Images) : Images[j].decodes})
        /\ \A i \in 1..Len(Info) :
              Info[i].DateTaken =
                 (LET f == Images[Info[i].File.base[1]]
                  IN IF f.date # 0 THEN f.date ELSE f.mtime)
        /\ Len(Thumbs) = Len(Info)
        /\ \A i \in 1..Len(Info) :
              Thumbs[i] = Info[i].Thumb /\ Thumbs[i] = Info[i].File.base

\* C8, its case: capture dates 2, 1 and a file without one, modified at 3,
\* come back as 1, 2, 3
C8_Witness ==
    /\ nops = 1
    /\ Len(Images) = 3
    /\ Images[1].date = 2 /\ Images[2].date = 1 /\ Images[3].date = 0
    /\ Images[3].mtime = 3
    /\ Len(Info) = 3
    /\ Info[1].File = NameAt(Images, 2) /\ Info[1].DateTaken = 1
    /\ Info[2].File = NameAt(Images, 1) /\ Info[2].DateTaken = 2
    /\ Info[3].File = NameAt(Images, 3) /\ Info[3].DateTaken = 3

(***************************************************************************)
(* The saving of the store after a reconciliation, next to the handlers    *)
(* of the window that read and write the AllInfo map (SpecSave).           *)
(***************************************************************************)
\* json.Encoder.Encode(*pm): File, Thumb (and Flagged) are tagged json:"-"
EncodeJSON(pm) == [k \in DOMAIN pm |-> Persisted(pm[k])]

\* os.Create(fname): the file is there and empty
OsCreate(fs, fname) == [fs EXCEPT ![fname] = EmptyFile]

\* SaveJSON whose buffered writer is never flushed
SaveJSONEncode_noflush(fs, fname, pm) == fs

\* PicMap.SaveJSON after os.Create: the encoded map goes through the
\* buffered writer into the file
SaveJSONEncode(fs, fname, pm) == [fs EXCEPT ![fname] = JsonFile(EncodeJSON(pm))]

\* os.Rename(info.json, info.json~): fails when there is no info.json
BackupRename(fs) ==
    IF fs.json = NoFile THEN fs ELSE [json |-> NoFile, bak |-> fs.json]

\* an access to the AllInfo map: by whom, whether the goroutine holds AllMu
\* and whether the encoder of a save is iterating the map meanwhile
Access(by, kind, me) ==
    [by |-> by, kind |-> kind, locked |-> AllMu = me,
     saving |-> savePc = "encoding" /\ me # "save"]

\* what info.json held before: the store of an earlier session
OldJson == JsonFile(EncodeJSON(
    [b \in {<<2, 1>>} |-> InfoFromFile(Mk(b, "jpg"), InitFiles[Mk(<<1, 0>>, "jpg")])]))

InitSave ==
    /\ \E S \in SUBSET DOMAIN InitFiles :
          /\ Cardinality(S) <= MaxPics
          /\ \E T \in SUBSET S :
                /\ all = [n \in S \ T |-> InitFiles[n]]
                /\ trash = [n \in T |-> InitFiles[n]]
          /\ thumbs = {n.base : n \in S}
          /\ AllInfo = [b \in {n.base : n \in S} |->
                          LET n == CHOOSE m \in S : m.base = b
                          IN InfoFromFile(n, InitFiles[n])]
    /\ disk = {"All", "Trash"}
    /\ links = [f \in AlbumNames |-> {}]
    /\ Folders = <<>> /\ FolderFiles = NilFolderFiles
    /\ Folder \in {"All", "Trash"}
    /\ crashed = FALSE /\ nops = 0 /\ lastOp = Other
    /\ IdleThumbs /\ IdleProg /\ IdleFn
    /\ AllMu = "free" /\ savePc = "none" /\ save0 = <<>> /\ mapAcc = {}
    /\ jsonFiles \in {[json |-> NoFile, bak |-> NoFile],
                      [json |-> OldJson, bak |-> NoFile],
                      [json |-> OldJson, bak |-> JsonFile(<<>>)]}

\* the saving goroutine takes a step to pc, leaving the library alone
SaveStep(pc) ==
    /\ savePc' = pc
    /\ UNCHANGED <<fsVars, thVars, ppVars, fnVars>>

\* DirInfo, at its end: go pv.SaveAllInfo()
SaveAllInfoGo ==
    /\ Running /\ savePc \in {"none", "done"}
    /\ savePc' = "lock"
    /\ nops' = nops + 1
    /\ UNCHANGED <<all, trash, disk, links, thumbs, Folders, FolderFiles,
                   AllInfo, Folder, crashed, lastOp, AllMu, jsonFiles, save0,
                   mapAcc, thVars, ppVars, fnVars>>

\* SaveAllInfo: pv.AllMu.Lock()
SaveAllInfoLock ==
    /\ savePc = "lock" /\ AllMu = "free"
    /\ AllMu' = "save"
    /\ SaveStep("check")
    /\ UNCHANGED <<jsonFiles, save0, mapAcc>>

\* SaveAllInfo: nothing is done for an empty store
SaveAllInfoCheck ==
    /\ savePc = "check"
    /\ save0' = [files |-> jsonFiles, empty |-> AllInfo = <<>>]
    /\ mapAcc' = mapAcc \cup {Access("SaveAllInfo", "read", "save")}
    /\ SaveStep(IF AllInfo = <<>> THEN "unlock" ELSE "rename")
    /\ UNCHANGED <<AllMu, jsonFiles>>

\* SaveAllInfo: the file of the save before becomes info.json~
SaveAllInfoRename ==
    /\ savePc = "rename"
    /\ jsonFiles' = BackupRename(jsonFiles)
    /\ SaveStep("create")
    /\ UNCHANGED <<AllMu, save0, mapAcc>>

\* SaveJSON: os.Create(fname)
SaveJSONCreate ==
    /\ savePc = "create"
    /\ jsonFiles' = OsCreate(jsonFiles, "json")
    /\ SaveStep("encode")
    /\ UNCHANGED <<AllMu, save0, mapAcc>>

\* SaveJSON: e.Encode(*pm) starts to go over the map
SaveJSONEncodeBegin ==
    /\ savePc = "encode"
    /\ mapAcc' = mapAcc \cup {Access("SaveJSON", "read", "save")}
    /\ SaveStep("encoding")
    /\ UNCHANGED <<AllMu, jsonFiles, save0>>

\* SaveJSON: e.Encode(*pm) is through and the writer flushed
SaveJSONEncodeEnd ==
    /\ savePc = "encoding"
    /\ jsonFiles' = SaveJSONEncode(jsonFiles, "json", AllInfo)
    /\ SaveStep("unlock")
    /\ UNCHANGED <<AllMu, save0, mapAcc>>

\* SaveAllInfo: pv.AllMu.Unlock()
SaveAllInfoUnlock ==
    /\ savePc = "unlock"
    /\ AllMu' = "free"
    /\ SaveStep("done")
    /\ UNCHANGED <<jsonFiles, save0, mapAcc>>

\* DeleteCurPic in Trash: CheckCur reads the map, DeleteInFolder deletes
\* the entry; neither takes AllMu
DeleteCurPicInTrash ==
    /\ Running /\ Folder = "Trash"
    /\ \E k \in Shown :
          SetFS(DeleteInFolder(W, "Trash", {AllInfo[k]}))
    /\ mapAcc' = mapAcc \cup {Access("CheckCur", "read", "gui"),
                              Access("DeleteInFolder", "write", "gui")}
    /\ UNCHANGED <<Folder, lastOp, AllMu, savePc, jsonFiles, save0, thVars,
                   ppVars, fnVars>>

\* Duplicate in All: sets the entry of the copy, holding UpdtMu only
DuplicateInAll ==
    /\ Running /\ Folder = "All"
    /\ Cardinality(DOMAIN all \cup DOMAIN trash) < MaxPics
    /\ \E k \in Shown :
          /\ HasUniqueName(W, AllInfo[k].DateTaken)
          /\ SetFS(Duplicate(W, k, Folder))
    /\ mapAcc' = mapAcc \cup {Access("Duplicate", "write", "gui")}
    /\ UNCHANGED <<Folder, lastOp, AllMu, savePc, jsonFiles, save0, thVars,
                   ppVars, fnVars>>

\* a goroutine of the reconciliation: AllMu.Lock(), the entry of one file
\* read or set, AllMu.Unlock()
InfoUpdtThr ==
    /\ AllMu = "free"
    /\ mapAcc' = mapAcc \cup {[by |-> "InfoUpdtThr", kind |-> "write",
                               locked |-> TRUE, saving |-> FALSE]}
    /\ UNCHANGED <<fsVars, thVars, ppVars, fnVars, AllMu, savePc, jsonFiles,
                   save0>>

NextSave ==
    \/ SaveAllInfoGo
    \/ SaveAllInfoLock
    \/ SaveAllInfoCheck
    \/ SaveAllInfoRename
    \/ SaveJSONCreate
    \/ SaveJSONEncodeBegin
    \/ SaveJSONEncodeEnd
    \/ SaveAllInfoUnlock
    \/ DeleteCurPicInTrash
    \/ DuplicateInAll
    \/ InfoUpdtThr

SpecSave == InitSave /\ [][NextSave]_vars

\* C12: every read or write of the AllInfo map, by the goroutines of a
\* reconciliation, by the save that follows it and by the handlers of the
\* window (DeleteInFolder, Duplicate, CheckCur), is made while AllMu is
\* held, so none falls into the encoding of the map by a save under way.
C12_MapAccessLocked ==
    \A a \in mapAcc : a.locked /\ ~a.saving

\* C15: a save of an empty store changes neither info.json nor info.json~;
\* a save of a store that is not empty first renames info.json to
\* info.json~ and only then writes the new content; the map is encoded
\* only while AllMu is held.
C15_SaveBacksUpUnderLock ==
    /\ savePc \in {"check", "rename", "create", "encode", "encoding",
                   "unlock"} => AllMu = "save"
    /\ (savePc \in {"unlock", "done"} /\ save0 # <<>> /\ save0.empty) =>
          jsonFiles = save0.files
    /\ savePc = "rename" => jsonFiles = save0.files
    /\ (savePc \in {"create", "encode", "encoding", "unlock", "done"}
        /\ save0 # <<>> /\ ~save0.empty) =>
          /\ save0.files.json # NoFile => jsonFiles.bak = save0.files.json
          /\ save0.files.json = NoFile => jsonFiles.bak = save0.files.bak
          /\ savePc = "create" => jsonFiles.json = NoFile
          /\ savePc \in {"unlock", "done"} => jsonFiles.json.kind = "json"

\* C15, its case: a store that is not empty was saved over an info.json
\* that was there, which is info.json~ now
C15_Witness ==
    /\ savePc = "done" /\ save0 # <<>> /\ ~save0.empty
    /\ save0.files.json = OldJson
    /\ jsonFiles.bak = OldJson
    /\ jsonFiles.json = JsonFile(EncodeJSON(AllInfo))

(***************************************************************************)
(* The progress monitor PProg: Start, then goroutines that call Step       *)
(* (SpecProg).  arg is the max that Start was given.                       *)
(***************************************************************************)
\* calls of Step per goroutine
MaxSteps == 11
\* goroutines that call Step
MaxProcs == 2

\* the numbers of files Start is called with
ProgMaxes == {0, 1, 5000, 5001, 50000, 50001}
\* the numbers of files a goroutine has in its range
StepCounts == {0, 1, MaxSteps - 1, MaxSteps}

\* ProgInc: the bar is updated every ProgInc(max) steps
ProgInc(max) ==
    IF max > 50000 THEN 1000
    ELSE IF max > 5000 THEN 100
    ELSE 10

\* ints.MaxInt
MaxInt(a, b) == IF a > b THEN a ELSE b

\* a Mu.Lock() that lets every goroutine in
MuFree_always(mu) == TRUE

\* pp.Mu.Lock() goes through when no goroutine holds Mu
MuFree(mu) == mu = 0

\* PProg.Start(max), and the goroutines about to call Step
InitProg ==
    /\ IdleFS /\ IdleThumbs /\ IdleSave
    /\ arg \in ProgMaxes /\ res = <<>>
    /\ Max = MaxInt(1, arg - 1)
    /\ Inc = ProgInc(arg)
    /\ Cur = 0
    /\ bar = <<0>>
    /\ Mu = 0
    /\ \E ns \in [1..MaxProcs -> StepCounts] :
          steps = [g \in 1..MaxProcs |->
                      [pc |-> IF ns[g] = 0 THEN "done" ELSE "lock",
                       n |-> ns[g], left |-> ns[g], tmp |-> 0]]

ProgFrame == UNCHANGED <<fsVars, thVars, svVars, fnVars, Max, Inc>>

\* Step: pp.Mu.Lock()
StepLock ==
    /\ \E g \in 1..MaxProcs :
          /\ steps[g].pc = "lock" /\ MuFree(Mu)
          /\ Mu' = g
          /\ steps' = [steps EXCEPT ![g].pc = "load"]
    /\ UNCHANGED <<Cur, bar>> /\ ProgFrame

\* Step: pp.Cur++, the read
StepLoad ==
    /\ \E g \in 1..MaxProcs :
          /\ steps[g].pc = "load"
          /\ steps' = [steps EXCEPT ![g].pc = "store", ![g].tmp = Cur]
    /\ UNCHANGED <<Cur, bar, Mu>> /\ ProgFrame

\* Step: pp.Cur++, the write
StepStore ==
    /\ \E g \in 1..MaxProcs :
          /\ steps[g].pc = "store"
          /\ Cur' = steps[g].tmp + 1
          /\ steps' = [steps EXCEPT ![g].pc = "bar"]
    /\ UNCHANGED <<bar, Mu>> /\ ProgFrame

\* Step: if pp.Cur%pp.Inc == 0 { pp.UpdtBar() }
StepBar ==
    /\ \E g \in 1..MaxProcs :
          /\ steps[g].pc = "bar"
          /\ bar' = IF Cur % Inc = 0 THEN Append(bar, Cur) ELSE bar
          /\ steps' = [steps EXCEPT ![g].pc = "unlock"]
    /\ UNCHANGED <<Cur, Mu>> /\ ProgFrame

\* Step: pp.Mu.Unlock(), and the goroutine goes on to its next file
StepUnlock ==
    /\ \E g \in 1..MaxProcs :
          /\ steps[g].pc = "unlock"
          /\ Mu' = IF Mu = g THEN 0 ELSE Mu
          /\ steps' = [steps EXCEPT ![g].left = @ - 1,
                                    ![g].pc = IF steps[g].left > 1
                                              THEN "lock" ELSE "done"]
    /\ UNCHANGED <<Cur, bar>> /\ ProgFrame

NextProg ==
    \/ StepLock
    \/ StepLoad
    \/ StepStore
    \/ StepBar
    \/ StepUnlock

SpecProg == InitProg /\ [][NextProg]_vars

\* the Step calls made in all, and those that are through
RECURSIVE SumSteps(_, _)
SumSteps(g, done) ==
    IF g = 0 THEN 0
    ELSE SumSteps(g - 1, done)
         + (IF done THEN steps[g].n - steps[g].left ELSE steps[g].n)

\* C13: in every interleaving of N calls of Step after Start(max) the
\* counter ends at exactly N, and the bar is updated exactly once for each
\* multiple of Inc the counter reaches, Inc being 10 for max <= 5000, 100
\* for 5000 < max <= 50000 and 1000 above.
C13_StepsCounted ==
    /\ Inc = (IF arg <= 5000 THEN 10 ELSE IF arg <= 50000 THEN 100 ELSE 1000)
    /\ Cur <= SumSteps(MaxProcs, FALSE)
    /\ SumSteps(MaxProcs, TRUE) <= Cur
    /\ (\A g \in 1..MaxProcs : steps[g].pc = "done") =>
          /\ Cur = SumSteps(MaxProcs, FALSE)
          /\ Len(bar) = 1 + (Cur \div Inc)
    /\ \A i \in 1..Len(bar) : bar[i] = (i - 1) * Inc

\* C13, its case: two goroutines made 21 calls between them and the bar
\* was updated at 10 and at 20
C13_Witness ==
    /\ \A g \in 1..MaxProcs : steps[g].pc = "done" /\ steps[g].n >= 10
    /\ Cur = 21
    /\ bar = <<0, 10, 20>>

(***************************************************************************)
(* The store as a file: OpenJSON, SaveJSON and SetFileThumb (SpecStore).   *)
(*   A key is a sequence: <<"a">> is the base name a, <<"a", ".jpg">> the  *)
(*   key a.jpg of a record written before Ext was kept.  A path is         *)
(*   [dir, base, ext].                                                     *)
(***************************************************************************)
\* records in a store
MaxRecs == 3

NoPath == [dir |-> "", base |-> <<>>, ext |-> ""]
PathOf(dir, base, ext) == [dir |-> dir, base |-> base, ext |-> ext]

\* dirs.SplitExt: the name without its extension, and the extension
SplitExt(k) ==
    IF Len(k) > 1 THEN [base |-> SubSeq(k, 1, Len(k) - 1), ext |-> k[Len(k)]]
    ELSE [base |-> k, ext |-> ""]

\* SetFileThumbFmBase that names the thumbnail after the picture's type
SetFileThumbFmBaseDirs_ext(pi, fnext, fdir, tdir) ==
    [pi EXCEPT !.File = PathOf(fdir, fnext, pi.Ext),
               !.Thumb = PathOf(tdir, fnext, pi.Ext)]

\* SetFileThumbFmBase with its directories: File is fdir/fnext+Ext, Thumb
\* is tdir/fnext.jpg
SetFileThumbFmBaseDirs(pi, fnext, fdir, tdir) ==
    [pi EXCEPT !.File = PathOf(fdir, fnext, pi.Ext),
               !.Thumb = PathOf(tdir, fnext, ".jpg")]

\* json.Decoder.Decode: the fields that are not in the file are zero
DecodeJSON(m) ==
    [k \in DOMAIN m |->
        [File |-> NoPath, Ext |-> m[k].Ext, Sup |-> m[k].Sup,
         Number |-> m[k].Number, DateTaken |-> m[k].DateTaken,
         Orient |-> m[k].Orient, Thumb |-> NoPath]]

\* PicMap.OpenJSON: the map is made anew, then the file opened and decoded;
\* an error of either is logged and returned
OpenJSON(f) ==
    IF f = NoFile THEN [nil |-> FALSE, pm |-> <<>>, err |-> "open"]
    ELSE IF f = EmptyFile THEN [nil |-> FALSE, pm |-> <<>>, err |-> "EOF"]
    ELSE [nil |-> FALSE, pm |-> DecodeJSON(f.map), err |-> "nil"]

\* PicMap.SaveJSON as a whole
SaveJSON(pm) == SaveJSONEncode(OsCreate([json |-> NoFile], "json"), "json", pm)

\* SetFileThumb, the body of its loop for the entry under key fnext
SetFileThumbEntry(pm, fnext, adir, tdir) ==
    LET pi == pm[fnext]
        sp == SplitExt(fnext)
        old == pi.Ext = ""
        key == IF old THEN sp.base ELSE fnext
        pm1 == IF old
               THEN With(Without(pm, fnext), sp.base, [pi EXCEPT !.Ext = sp.ext])
               ELSE pm
    IN [pm1 EXCEPT ![key] = SetFileThumbFmBaseDirs(@, key, adir, tdir)]

\* the keys a store file may hold, and the record under each
StoreKeys == {<<"a">>, <<"b">>, <<"a", ".jpg">>, <<"a", ".png">>, <<"b", ".jpg">>}
StoreDirs == {"pix", "moved"}
StoreRec(k, dir) ==
    LET n == CHOOSE i \in 1..5 :
               k = <<<<"a">>, <<"b">>, <<"a", ".jpg">>, <<"a", ".png">>,
                     <<"b", ".jpg">>>>[i]
        ext == IF Len(k) > 1 THEN "" ELSE IF n = 1 THEN ".jpg" ELSE ".png"
    IN [File |-> IF ext = "" THEN NoPath ELSE PathOf(dir, k, ext),
        Ext |-> ext, Sup |-> IF n = 2 THEN "Png" ELSE "Jpeg",
        Number |-> 0, DateTaken |-> n, Orient |-> Rotated0,
        Thumb |-> IF ext = "" THEN NoPath ELSE PathOf(dir, k, ".jpg")]

\* arg is either a store in memory (saved, opened again and given its
\* paths) or a file (opened and given its paths)
InitStore ==
    /\ IdleFS /\ IdleThumbs /\ IdleSave /\ IdleProg
    /\ res = <<>>
    /\ \E adir \in StoreDirs, tdir \in {"thumbs", "cache"} :
          \/ \E K \in SUBSET {k \in StoreKeys : Len(k) = 1}, d \in StoreDirs :
                arg = [from |-> "store", pm |-> [k \in K |-> StoreRec(k, d)],
                       file |-> NoFile, adir |-> adir, tdir |-> tdir]
          \/ \E K \in SUBSET StoreKeys :
                /\ Cardinality(K) <= MaxRecs
                /\ arg = [from |-> "file", pm |-> <<>>,
                          file |-> JsonFile(EncodeJSON(
                                      [k \in K |-> StoreRec(k, "pix")])),
                          adir |-> adir, tdir |-> tdir]
          \/ \E f \in {NoFile, EmptyFile} :
                arg = [from |-> "file", pm |-> <<>>, file |-> f,
                       adir |-> adir, tdir |-> tdir]

StoreFrame == UNCHANGED <<fsVars, thVars, svVars, ppVars, arg>>

\* OpenAllInfo: OpenJSON of the file, SetFileThumb to follow
OpenJSONFile ==
    /\ res = <<>> /\ arg.from = "file"
    /\ LET r == OpenJSON(arg.file)
       IN res' = [pm |-> r.pm, nil |-> r.nil, err |-> r.err,
                  todo |-> DOMAIN r.pm, file |-> arg.file]
    /\ StoreFrame

\* SaveJSON of the store, and OpenJSON of what was written
SaveThenOpenJSON ==
    /\ res = <<>> /\ arg.from = "store"
    /\ LET f == SaveJSON(arg.pm).json
           r == OpenJSON(f)
       IN res' = [pm |-> r.pm, nil |-> r.nil, err |-> r.err,
                  todo |-> DOMAIN r.pm, file |-> f]
    /\ StoreFrame

\* SetFileThumb: the range over the map gives one more of its keys; a key
\* deleted before it is reached is not given
SetFileThumbNext ==
    /\ res # <<>> /\ res.todo # {}
    /\ \E k \in res.todo :
          res' = [res EXCEPT
                    !.todo = @ \ {k},
                    !.pm = IF k \in DOMAIN @
                           THEN SetFileThumbEntry(@, k, arg.adir, arg.tdir)
                           ELSE @]
    /\ StoreFrame

NextStore ==
    \/ OpenJSONFile
    \/ SaveThenOpenJSON
    \/ SetFileThumbNext

SpecStore == InitStore /\ [][NextStore]_vars

\* C16: loading the store from a path where there is no file gives an
\* empty store that is not nil, and no error is reported to the caller.
C16_MissingFileNoError ==
    (res # <<>> /\ arg.from = "file" /\ arg.file = NoFile) =>
        /\ ~res.nil
        /\ res.pm = <<>>
        /\ res.err = "nil"

\* C17: File and Thumb are not written to info.json and are recomputed from
\* the key, Ext and the directories given: a store saved, loaded and put
\* through SetFileThumb(adir, tdir) has for every record File =
\* adir/key+Ext and Thumb = tdir/key.jpg and the persisted fields as they
\* were, whatever the directories at the time of the save.
C17_PathsDerived ==
    (arg.from = "store" /\ res # <<>>) =>
        /\ \A k \in DOMAIN res.file.map :
              DOMAIN res.file.map[k] \cap {"File", "Thumb"} = {}
        /\ res.todo = {} =>
              /\ DOMAIN res.pm = DOMAIN arg.pm
              /\ \A k \in DOMAIN arg.pm :
                    /\ res.pm[k].File = PathOf(arg.adir, k, arg.pm[k].Ext)
                    /\ res.pm[k].Thumb = PathOf(arg.tdir, k, ".jpg")
                    /\ Persisted(res.pm[k]) = Persisted(arg.pm[k])

\* C17, its case: a store of two records, one a .png, saved under one
\* directory and given its paths under another
C17_Witness ==
    /\ arg.from = "store" /\ res # <<>> /\ res.todo = {}
    /\ DOMAIN arg.pm = {<<"a">>, <<"b">>}
    /\ arg.pm[<<"b">>].File.dir = "pix" /\ arg.adir = "moved"
    /\ res.pm[<<"b">>].File = PathOf("moved", <<"b">>, ".png")
    /\ res.pm[<<"b">>].Thumb.ext = ".jpg"

\* C18: the migration of old entries keeps every record: after
\* SetFileThumb on a store with entries of empty Ext, whose key still
\* carries the extension, the store has exactly one entry for each entry it
\* had, under the base name without extension, with Ext the extension split
\* off, and none under its old key.
C18_MigrationKeepsAll ==
    (arg.from = "file" /\ arg.file.kind = "json" /\ res # <<>>
     /\ res.todo = {}) =>
        /\ Cardinality(DOMAIN res.pm) = Cardinality(DOMAIN arg.file.map)
        /\ \A k \in DOMAIN arg.file.map :
              LET old == arg.file.map[k].Ext = ""
                  key == IF old THEN SplitExt(k).base ELSE k
              IN /\ key \in DOMAIN res.pm
                 /\ res.pm[key].DateTaken = arg.file.map[k].DateTaken
                 /\ res.pm[key].Ext = (IF old THEN SplitExt(k).ext
                                       ELSE arg.file.map[k].Ext)
                 /\ (old /\ key # k) => k \notin DOMAIN res.pm

(***************************************************************************)
(* The order of the steps of an edit: SetDateTakenSel, SetDateTakenCur and *)
(* RotateSel taken statement by statement, on the files of InitFS.  arg is *)
(* the call; res is the position in it and the log of what was done: mem   *)
(* (a field of the record is set), file (the picture file is renamed or    *)
(* written) and cache (the reconciliation that also saves the store).      *)
(***************************************************************************)
EditHandlers == {"SetDateTakenSel", "SetDateTakenCur", "RotateSel"}
EditDegs == {90, -90, 180, 45}

EditKey == arg.ks[res.i]
EditPi == AllInfo[EditKey]
EditNon90 == arg.deg # 90 /\ arg.deg # -90 /\ arg.deg # 180
EditLog(ev) == Append(res.log, [ev |-> ev, pic |-> EditKey])

EditStep(w, r) ==
    /\ SetFS(w)
    /\ res' = r
    /\ UNCHANGED <<Folder, lastOp, thVars, svVars, ppVars, arg>>

\* the handler is entered: CheckSel or CheckCur gives the records, and
\* with none of them the handler returns
EditBegin ==
    /\ res = <<>>
    /\ \E h \in EditHandlers, S \in Selections \cup {{}}, date \in Dates,
          inc \in {0, 1}, deg \in EditDegs :
          /\ h = "SetDateTakenCur" => Cardinality(S) <= 1 /\ inc = 0
          /\ h = "RotateSel" => date = 1 /\ inc = 0
          /\ h # "RotateSel" => deg = 90
          /\ date + inc * (Cardinality(S) - 1) \in Dates \/ S = {}
          /\ arg' = [h |-> h, ks |-> SetToSeq(S), date |-> date,
                     inc |-> inc, deg |-> deg]
          /\ res' = [pc |-> IF S = {} THEN "done" ELSE "pic", i |-> 1,
                     cdt |-> date, log |-> <<>>]
    /\ SetFS(W)
    /\ UNCHANGED <<Folder, lastOp, thVars, svVars, ppVars>>

\* SetDateTaken sets DateTaken; RotateImage sets Orient for a quarter or
\* half turn of a Jpeg; SaveExifFile follows
EditMutate ==
    /\ res # <<>> /\ res.pc = "pic"
    /\ arg.h = "RotateSel" => ~EditNon90 /\ EditPi.Sup = "Jpeg"
    /\ EditStep(IF arg.h = "RotateSel"
                THEN [W EXCEPT !.AllInfo[EditKey].Orient = Rotate(@, arg.deg)]
                ELSE [W EXCEPT !.AllInfo[EditKey].DateTaken = res.cdt],
                [res EXCEPT !.pc = "save", !.log = EditLog("mem")])

\* picinfo.OpenImage, in RotateImage for another angle or another format
\* and in SaveExifFile for another format; when it fails the function
\* returns
EditOpenImage ==
    /\ res # <<>>
    /\ \/ /\ res.pc = "pic" /\ arg.h = "RotateSel"
          /\ EditNon90 \/ EditPi.Sup # "Jpeg"
          /\ EditStep(W, [res EXCEPT !.pc = IF EditPi.File \in DOMAIN all
                                            THEN "pixels" ELSE "next"])
       \/ /\ res.pc = "save" /\ EditPi.Sup # "Jpeg"
          /\ EditStep(W, [res EXCEPT !.pc = IF EditPi.File \in DOMAIN all
                                            THEN "rename" ELSE "next"])

\* RenameAsJpeg, its call of RenameFile
EditRenameFile ==
    /\ res # <<>> /\ res.pc = "rename"
    /\ LET w1 == IF FolderFiles.nil THEN GetFolderFiles(W) ELSE W
           fnb == EditPi.File
       IN EditStep(RenameFile(w1, fnb, Mk(fnb.base, "jpg")),
                   [res EXCEPT !.pc = "setfile", !.log = EditLog("file")])

\* RenameAsJpeg, pi.File = the new name
EditSetFile ==
    /\ res # <<>> /\ res.pc = "setfile"
    /\ EditStep([W EXCEPT !.AllInfo[EditKey].File = Mk(@.base, "jpg")],
                [res EXCEPT !.pc = "savenew", !.log = EditLog("mem")])

\* the file is written: SaveJpegUpdated or SaveJpegNew in SaveExifFile,
\* SaveJpegUpdatedExif or SaveImage in RotateImage
EditWriteFile ==
    /\ res # <<>>
    /\ \/ /\ res.pc = "save" /\ EditPi.Sup = "Jpeg"
          /\ EditStep(SaveJpegUpdated(W, EditKey),
                      [res EXCEPT !.pc = "thumb", !.log = EditLog("file")])
       \/ /\ res.pc = "savenew"
          /\ EditStep(SaveJpegNew(W, EditKey),
                      [res EXCEPT !.pc = "thumb", !.log = EditLog("file")])
       \/ /\ res.pc = "pixels"
          /\ EditStep(IF EditPi.Sup = "Jpeg"
                      THEN SaveJpegUpdatedExif(W, EditKey)
                      ELSE SaveImage(W, EditPi.File),
                      [res EXCEPT !.pc = "thumb", !.log = EditLog("file")])

EditThumbGen ==
    /\ res # <<>> /\ res.pc = "thumb"
    /\ EditStep(ThumbGen(W, EditKey), [res EXCEPT !.pc = "next"])

\* the loop goes to the next record, or ends
EditProgStep ==
    /\ res # <<>> /\ res.pc = "next"
    /\ EditStep(W, [res EXCEPT !.pc = IF res.i = Len(arg.ks) THEN "dirinfo"
                                      ELSE "pic",
                               !.i = @ + 1, !.cdt = @ + arg.inc])

\* pv.FolderFiles = nil (not in SetDateTakenCur) and pv.DirInfo(false)
EditDirInfo ==
    /\ res # <<>> /\ res.pc = "dirinfo"
    /\ EditStep(DirInfo(IF arg.h = "SetDateTakenCur" THEN W
                        ELSE [W EXCEPT !.FolderFiles = NilFolderFiles],
                        Folder),
                [res EXCEPT !.pc = "done",
                            !.log = Append(@, [ev |-> "cache", pic |-> <<>>])])

NextEdit ==
    \/ EditBegin
    \/ EditMutate
    \/ EditOpenImage
    \/ EditRenameFile
    \/ EditSetFile
    \/ EditWriteFile
    \/ EditThumbGen
    \/ EditProgStep
    \/ EditDirInfo

SpecEdit == InitFS /\ [][NextEdit]_vars

\* C19: a rename, a rotation or a change of date goes in the order: the
\* record in memory is changed, then the picture file, then the cache
\* (reconciliation and save): in the log of a handler no change of a
\* record follows a change of that picture's file, nothing follows the
\* update of the cache, and in a batch the cache is updated when the file
\* of every selected picture has been gone through.
C19_MemoryFileCache ==
    res # <<>> =>
        /\ \A a, b \in 1..Len(res.log) :
              a < b =>
                 /\ res.log[a].ev # "cache"
                 /\ (res.log[a].ev = "file" /\ res.log[a].pic = res.log[b].pic)
                       => res.log[b].ev # "mem"
        /\ (\E a \in 1..Len(res.log) : res.log[a].ev = "cache")
              => res.i > Len(arg.ks)
        /\ (res.pc = "done" /\ arg.ks # <<>>)
              => res.log[Len(res.log)].ev = "cache"

(***************************************************************************)
(* The date of a record made from a file: OpenNewInfo, with the metadata   *)
(* as the list of entries the parser gives, in the order it gives them.    *)
(* A time is a number, 0 the zero time; a value string is its layout and   *)
(* the day and second written in it.                                       *)
(***************************************************************************)
MaxEntries == 4
ZeroTime == 0
TimeOf(day, sec) == day * 10 + sec
DateTagNames == {"DateTimeOriginal", "DateTimeDigitized", "DateTime"}
TagNames == DateTagNames \cup {"Make"}
\* "2006:01:02 15:04:05", "2006:01:02:15:04:05", "2006:01:02" of 10
\* characters, the same with one more character, and strings that have no
\* date in them, of 19 characters and of another length
ValLayouts == {"full", "colons", "date", "date11", "junk19", "junk"}
ValStrings == [layout : ValLayouts, day : {3, 4, 5}, sec : {1}]
Parsed(t) == [t |-> t, err |-> FALSE]
ParseErr == [t |-> ZeroTime, err |-> TRUE]

\* ExifDateParser: the standard layout, or a date alone of 10 or 11
\* characters, or the layout with colons throughout
ExifDateParser(ds) ==
    IF ds.layout = "full" THEN Parsed(TimeOf(ds.day, ds.sec))
    ELSE IF ds.layout = "date11" THEN Parsed(TimeOf(ds.day, 0))
    ELSE IF ds.layout = "date" THEN Parsed(TimeOf(ds.day, 0))
    ELSE IF ds.layout = "colons" THEN Parsed(TimeOf(ds.day, ds.sec))
    ELSE ParseErr

\* ParseRawExif, the loop over the entries: each date tag has its own
\* variable, zero when the value does not parse
RECURSIVE ParseDateEntries(_, _)
ParseDateEntries(entries, d) ==
    IF entries = <<>> THEN d
    ELSE LET e == Head(entries)
             p == ExifDateParser(e.val)
             t == IF p.err THEN ZeroTime ELSE p.t
         IN ParseDateEntries(Tail(entries),
               IF e.TagName = "DateTimeOriginal" THEN [d EXCEPT !.dto = t]
               ELSE IF e.TagName = "DateTimeDigitized"
               THEN [d EXCEPT !.dtd = t]
               ELSE IF e.TagName = "DateTime" THEN [d EXCEPT !.dtp = t]
               ELSE d)

\* ParseRawExif, after the loop: DateTaken and DateMod
DateTakenFrom_digitized(pi, d) ==
    LET taken == IF d.dtd # ZeroTime THEN d.dtd
                 ELSE IF d.dto # ZeroTime THEN d.dto
                 ELSE IF d.dtp # ZeroTime THEN d.dtp
                 ELSE pi.DateTaken
    IN [pi EXCEPT !.DateTaken = taken,
                  !.DateMod = IF d.dtp # ZeroTime /\ taken # d.dtp THEN d.dtp
                              ELSE taken]
DateTakenFrom(pi, d) ==
    LET taken == IF d.dto # ZeroTime THEN d.dto
                 ELSE IF d.dtd # ZeroTime THEN d.dtd
                 ELSE IF d.dtp # ZeroTime THEN d.dtp
                 ELSE pi.DateTaken
    IN [pi EXCEPT !.DateTaken = taken,
                  !.DateMod = IF d.dtp # ZeroTime /\ taken # d.dtp THEN d.dtp
                              ELSE taken]

\* NewInfoForFile: the dates are the file's modification time, the zero
\* time when the file cannot be examined
NewInfoForFileDates(f) ==
    LET mod == IF f.stat THEN f.ModTime ELSE ZeroTime
    IN [pi |-> [FileMod |-> mod, DateTaken |-> mod, DateMod |-> mod],
        err |-> ~f.stat]

\* ParseRawExif: nothing is done without metadata
ParseRawExifDates(pi, f) ==
    IF f.raw = "none" THEN pi
    ELSE DateTakenFrom(pi, ParseDateEntries(f.entries,
                              [dto |-> ZeroTime, dtd |-> ZeroTime,
                               dtp |-> ZeroTime]))

\* OpenNewInfo: no record when the file cannot be read or examined
OpenNewInfoDates(f) ==
    IF f.raw = "err" THEN [nil |-> TRUE, pi |-> <<>>]
    ELSE LET r == NewInfoForFileDates(f)
         IN IF r.err THEN [nil |-> TRUE, pi |-> <<>>]
            ELSE [nil |-> FALSE, pi |-> ParseRawExifDates(r.pi, f)]

\* the entries a file may hold: each date tag with a day of its own
TagEntries ==
    {e \in [TagName : TagNames, val : ValStrings] :
        /\ e.TagName = "Make" => e.val = [layout |-> "junk", day |-> 3,
                                          sec |-> 1]
        /\ e.TagName = "DateTimeOriginal" => e.val.day = 3
        /\ e.TagName = "DateTimeDigitized" => e.val.day = 4
        /\ e.TagName = "DateTime" => e.val.day = 5}

\* the lists of entries: every tag at most once, in any order
EntryLists ==
    {es \in UNION {[1..n -> TagEntries] : n \in 0..MaxEntries} :
        \A i, j \in 1..Len(es) : i # j => es[i].TagName # es[j].TagName}

InitDate ==
    /\ IdleFS /\ IdleThumbs /\ IdleSave /\ IdleProg
    /\ res = <<>>
    /\ \E stat \in BOOLEAN, mod \in {1, 2}, raw \in {"err", "none", "exif"},
          es \in EntryLists :
          /\ raw # "exif" => es = <<>>
          /\ arg = [stat |-> stat, ModTime |-> mod, raw |-> raw,
                    entries |-> es]

OpenNewInfoFile ==
    /\ res = <<>>
    /\ res' = OpenNewInfoDates(arg)
    /\ UNCHANGED <<fsVars, thVars, svVars, ppVars, arg>>

NextDate == OpenNewInfoFile

SpecDate == InitDate /\ [][NextDate]_vars

\* the value of a tag of the file when it is there and parses
TagParses(tag) ==
    /\ arg.raw = "exif"
    /\ \E i \in 1..Len(arg.entries) :
          /\ arg.entries[i].TagName = tag
          /\ arg.entries[i].val.layout \in {"full", "colons", "date", "date11"}
TagTime(tag) ==
    LET e == arg.entries[CHOOSE i \in 1..Len(arg.entries) :
                            arg.entries[i].TagName = tag]
    IN IF e.val.layout \in {"full", "colons"}
       THEN TimeOf(e.val.day, e.val.sec) ELSE TimeOf(e.val.day, 0)

GpsTagNames == {"GPSLatitudeRef", "GPSLatitude", "GPSLongitudeRef",
                "GPSLongitude"}
GpsTriplets == {<<40, 26, 46>>, <<79, 58, 56>>, <<0, 30, 0>>}
\* an entry's value: its string, or its numbers
GpsEntries ==
    {e \in [TagName : GpsTagNames,
            val : [s : {"N", "S", "E", "W"}, f : {<<>>}]
                  \cup [s : {""}, f : GpsTriplets]] :
        /\ e.TagName = "GPSLatitudeRef" => e.val.s \in {"N", "S"}
        /\ e.TagName = "GPSLongitudeRef" => e.val.s \in {"E", "W"}
        /\ e.TagName \in {"GPSLatitude", "GPSLongitude"} => e.val.s = ""}
GpsEntryLists ==
    {es \in UNION {[1..n -> GpsEntries] : n \in 0..MaxEntries} :
        \A i, j \in 1..Len(es) : i # j => es[i].TagName # es[j].TagName}

\* DecDegFromDMS: degs + mins/60 + secs/3600, in seconds of arc
DecDegFromDMS(degs, mins, secs) == degs * 3600 + mins * 60 + secs

\* ParseRawExif, the loop: lat and long hold the three numbers and, fourth,
\* the sign of the reference (0 when there was none)
RECURSIVE ParseGpsEntries(_, _)
ParseGpsEntries(entries, g) ==
    IF entries = <<>> THEN g
    ELSE LET e == Head(entries)
         IN ParseGpsEntries(Tail(entries),
               IF e.TagName = "GPSLatitudeRef"
               THEN [g EXCEPT !.lat[4] = IF e.val.s = "N" THEN 1 ELSE -1]
               ELSE IF e.TagName = "GPSLatitude"
               THEN [g EXCEPT !.lat = [i \in 1..4 |->
                                 IF i <= Len(e.val.f) THEN e.val.f[i] ELSE @[i]]]
               ELSE IF e.TagName = "GPSLongitudeRef"
               THEN [g EXCEPT !.long[4] = IF e.val.s = "E" THEN 1 ELSE -1]
               ELSE IF e.TagName = "GPSLongitude"
               THEN [g EXCEPT !.long = [i \in 1..4 |->
                                 IF i <= Len(e.val.f) THEN e.val.f[i] ELSE @[i]]]
               ELSE g)

\* ParseRawExif, after the loop: the sign is put on the three numbers
GpsSigned_degs(v) == IF v[4] # 0 THEN [v EXCEPT ![1] = @ * v[4]] ELSE v
GpsSigned(v) ==
    IF v[4] # 0
    THEN [v EXCEPT ![1] = @ * v[4], ![2] = @ * v[4], ![3] = @ * v[4]]
    ELSE v

ParseRawExifGps(entries) ==
    LET g == ParseGpsEntries(entries, [lat |-> <<0, 0, 0, 0>>,
                                       long |-> <<0, 0, 0, 0>>])
        lat == GpsSigned(g.lat)
        long == GpsSigned(g.long)
    IN [Lat |-> DecDegFromDMS(lat[1], lat[2], lat[3]),
        Long |-> DecDegFromDMS(long[1], long[2], long[3])]

InitGps ==
    /\ IdleFS /\ IdleThumbs /\ IdleSave /\ IdleProg
    /\ res = <<>>
    /\ \E es \in GpsEntryLists : arg = [entries |-> es]

ParseRawExifGpsTags ==
    /\ res = <<>>
    /\ res' = ParseRawExifGps(arg.entries)
    /\ UNCHANGED <<fsVars, thVars, svVars, ppVars, arg>>

NextGps == ParseRawExifGpsTags

SpecGps == InitGps /\ [][NextGps]_vars

\* the value of a tag, that of no entry when the tag is not there
GpsTag(tag) ==
    IF \E i \in 1..Len(arg.entries) : arg.entries[i].TagName = tag
    THEN arg.entries[CHOOSE i \in 1..Len(arg.entries) :
                        arg.entries[i].TagName = tag].val
    ELSE [s |-> "", f |-> <<>>]
\* a number of seconds of arc is about a number of thousandths of a degree
About(secs, milli) ==
    /\ secs * 1000 - milli * 3600 <= 3600
    /\ milli * 3600 - secs * 1000 <= 3600

MaxSide == 3
\* an orientation is an int: the values of the enum, OrientationsN and one
\* on either side
OrientValues == (NoOrient - 1) .. (OrientUndef + 2)
Point(x, y) == [X |-> x, Y |-> y]

OrientSize_never(or, sz) == sz
OrientSize(or, sz) ==
    IF or \in {Rotated90L, Rotated90R, FlippedHRotated90L, FlippedHRotated90R}
    THEN Point(sz.Y, sz.X)
    ELSE sz

InitOrient ==
    /\ IdleFS /\ IdleThumbs /\ IdleSave /\ IdleProg
    /\ res = <<>>
    /\ \E or \in OrientValues, x \in 0..MaxSide, y \in 0..MaxSide :
          arg = [or |-> or, sz |-> Point(x, y)]

OrientSizeOf ==
    /\ res = <<>>
    /\ res' = [osz |-> OrientSize(arg.or, arg.sz)]
    /\ UNCHANGED <<fsVars, thVars, svVars, ppVars, arg>>

NextOrient == OrientSizeOf

SpecOrient == InitOrient /\ [][NextOrient]_vars

\* C22: OrientSize gives the size with width and height swapped if and
\* only if the orientation is one of Rotated90L, Rotated90R,
\* FlippedHRotated90L and FlippedHRotated90R, and the size as it is for
\* every other value.
C22_OrientSizeSwaps ==
    res # <<>> =>
        /\ arg.or \in {5, 6, 7, 8}
              => res.osz.X = arg.sz.Y /\ res.osz.Y = arg.sz.X
        /\ arg.or \notin {5, 6, 7, 8} => res.osz = arg.sz

\* C22, its case: a picture 2 wide and 3 high, flipped and rotated to the
\* right, is 3 wide and 2 high
C22_Witness ==
    /\ res # <<>>
    /\ arg.or = FlippedHRotated90R /\ arg.sz = Point(2, 3)
    /\ res.osz = Point(3, 2)

(***************************************************************************)
(* The metadata of a Jpeg file, read and written: OpenNewInfo, UpdateExif  *)
(* and SaveJpegUpdated with all the fields UpdateExif compares.  A blob is *)
(* the tags it holds, by name; a time is counted in half seconds, and the  *)
(* text of a time holds whole seconds.                                     *)
(***************************************************************************)
ExifTagNames == {"DateTimeOriginal", "DateTime", "ImageNumber",
                 "PixelXDimension", "PixelYDimension", "Orientation",
                 "ImageDescription", "Make"}
\* the value each tag has in a file before the program writes it
TagVal(n) ==
    CASE n = "DateTimeOriginal" -> 1
      [] n = "DateTime" -> 2
      [] n = "ImageNumber" -> 1
      [] n = "PixelXDimension" -> 2
      [] n = "PixelYDimension" -> 3
      [] n = "Orientation" -> Rotated90L
      [] n = "ImageDescription" -> "desc"
      [] n = "Make" -> "make"
NoBlob == [nil |-> TRUE, tags |-> <<>>]
Blob(t) == [nil |-> FALSE, tags |-> t]
Blobs == {NoBlob} \cup {Blob([n \in S |-> TagVal(n)]) : S \in SUBSET ExifTagNames}

\* exif.ExifFullTimestampString and time.Parse("2006:01:02 15:04:05")
ExifFullTimestampString(t) == t \div 2
TimeParse(s) == s * 2
\* time.Now(), which is after every time in a file and not a whole second
ExifNow == 2 * WriteTime + 1
ZP == [X |-> 0, Y |-> 0]

\* NewInfoForFile, with the fields UpdateExif compares
NewInfoForFileTags(f) ==
    [FileMod |-> f.mtime, DateTaken |-> f.mtime, DateMod |-> f.mtime,
     Number |-> 0, Size |-> ZP, Orient |-> NoOrient, Desc |-> "",
     Tags |-> <<>>]

\* ParseRawExif: the tags it has a case for set their fields, the others go
\* to Tags
ParseRawExifTags(pi, raw) ==
    IF raw.nil THEN pi
    ELSE LET t == raw.tags
             Has(n) == n \in DOMAIN t
             dto == IF Has("DateTimeOriginal")
                    THEN TimeParse(t["DateTimeOriginal"]) ELSE ZeroTime
             dtp == IF Has("DateTime") THEN TimeParse(t["DateTime"])
                    ELSE ZeroTime
             taken == IF dto # ZeroTime THEN dto
                      ELSE IF dtp # ZeroTime THEN dtp ELSE pi.DateTaken
         IN [pi EXCEPT
               !.DateTaken = taken,
               !.DateMod = IF dtp # ZeroTime /\ taken # dtp THEN dtp
                           ELSE taken,
               !.Number = IF Has("ImageNumber") THEN t["ImageNumber"] ELSE @,
               !.Size = [X |-> IF Has("PixelXDimension")
                               THEN t["PixelXDimension"] ELSE @.X,
                         Y |-> IF Has("PixelYDimension")
                               THEN t["PixelYDimension"] ELSE @.Y],
               !.Orient = IF Has("Orientation") THEN t["Orientation"] ELSE @,
               !.Desc = IF Has("ImageDescription") THEN t["ImageDescription"]
                        ELSE @,
               !.Tags = [n \in DOMAIN t \cap {"Make"} |-> t[n]]]

OpenNewInfoTags(f) == ParseRawExifTags(NewInfoForFileTags(f), f.blob)

\* the tags of a builder with one more set
SetStandardWithName(ib, name, val) ==
    [n \in DOMAIN ib \cup {name} |-> IF n = name THEN val ELSE ib[n]]

\* the fields UpdateExif compares, each with the tag it sets
ExifFields ==
    {"DateTimeOriginal", "ImageNumber", "PixelYDimension", "PixelXDimension",
     "Orientation", "ImageDescription"}
FieldOf(pi, n) ==
    CASE n = "DateTimeOriginal" -> pi.DateTaken
      [] n = "ImageNumber" -> pi.Number
      [] n = "PixelYDimension" -> pi.Size.Y
      [] n = "PixelXDimension" -> pi.Size.X
      [] n = "Orientation" -> pi.Orient
      [] n = "ImageDescription" -> pi.Desc
TagOf(pi, n) ==
    IF n = "DateTimeOriginal" THEN ExifFullTimestampString(pi.DateTaken)
    ELSE FieldOf(pi, n)

\* UpdateExif as it is in the version of exif.go that builds with go-exif
\* v2: the builder starts from the blob's tags and gets a tag for every
\* field that differs from the blob parsed again; DateMod and DateTime are
\* stamped when any did
UpdateExifV2_all(pi, f, raw) ==
    LET ib0 == IF raw.nil THEN <<>> ELSE raw.tags
    IN [ib |-> SetStandardWithName(
                  [n \in DOMAIN ib0 \cup ExifFields |->
                      IF n \in ExifFields THEN TagOf(pi, n) ELSE ib0[n]],
                  "DateTime", ExifFullTimestampString(ExifNow)),
        set |-> ExifFields, nil |-> FALSE, updt |-> TRUE,
        pi |-> [pi EXCEPT !.DateMod = ExifNow]]
UpdateExifV2(pi, f, raw) ==
    LET ci == ParseRawExifTags(NewInfoForFileTags(f), raw)
        ib0 == IF raw.nil THEN <<>> ELSE raw.tags
        diff == {n \in ExifFields : FieldOf(ci, n) # FieldOf(pi, n)}
        ib1 == [n \in DOMAIN ib0 \cup diff |->
                   IF n \in diff THEN TagOf(pi, n) ELSE ib0[n]]
        updt == diff # {}
    IN [ib |-> IF updt
               THEN SetStandardWithName(ib1, "DateTime",
                                        ExifFullTimestampString(ExifNow))
               ELSE ib1,
        set |-> diff,
        nil |-> FALSE,
        updt |-> updt,
        pi |-> IF updt THEN [pi EXCEPT !.DateMod = ExifNow] ELSE pi]

\* UpdateExif as it is in the version that builds with go-exif v3: it
\* returns at once, with no builder and no update
UpdateExifV3(pi, f, raw) ==
    [ib |-> <<>>, set |-> {}, nil |-> TRUE, updt |-> FALSE, pi |-> pi]

UpdateExifTags(ver, pi, f, raw) ==
    IF ver = "v2" THEN UpdateExifV2(pi, f, raw) ELSE UpdateExifV3(pi, f, raw)

\* SaveJpegUpdated: a record without size takes the size of the decoded
\* picture; the file is written when UpdateExif reports an update, and then
\* FileMod is read again
SaveJpegUpdatedTags(ver, pi, f) ==
    LET pi1 == IF pi.Size = ZP /\ f.decodes THEN [pi EXCEPT !.Size = f.px]
               ELSE pi
        u == UpdateExifTags(ver, pi1, f, f.blob)
    IN IF ~u.updt THEN [pi |-> u.pi, f |-> f, wrote |-> FALSE]
       ELSE [pi |-> [u.pi EXCEPT !.FileMod = ExifNow],
             f |-> [f EXCEPT !.blob = Blob(u.ib), !.mtime = ExifNow],
             wrote |-> TRUE]

\* the files: a Jpeg with any of the tags or without metadata, whose
\* picture decodes or does not, last written on a whole second or not
ExifFiles ==
    [mtime : {2, 3}, blob : Blobs, decodes : BOOLEAN, px : {[X |-> 2, Y |-> 3]}]
\* a value for a field that no file and no record made from one has
NewField(n, odd) ==
    CASE n = "DateTimeOriginal" -> IF odd THEN 2 * WriteTime + 3
                                   ELSE 2 * WriteTime + 2
      [] n = "ImageNumber" -> 2
      [] n = "PixelYDimension" -> 7
      [] n = "PixelXDimension" -> 7
      [] n = "Orientation" -> Rotated180
      [] n = "ImageDescription" -> "new"
SetField(pi, n, v) ==
    CASE n = "DateTimeOriginal" -> [pi EXCEPT !.DateTaken = v]
      [] n = "ImageNumber" -> [pi EXCEPT !.Number = v]
      [] n = "PixelYDimension" -> [pi EXCEPT !.Size.Y = v]
      [] n = "PixelXDimension" -> [pi EXCEPT !.Size.X = v]
      [] n = "Orientation" -> [pi EXCEPT !.Orient = v]
      [] n = "ImageDescription" -> [pi EXCEPT !.Desc = v]

InitExif ==
    /\ IdleFS /\ IdleThumbs /\ IdleSave /\ IdleProg
    /\ res = <<>>
    /\ \E ver \in {"v2", "v3"}, f \in ExifFiles : arg = [ver |-> ver, f |-> f]

ExifFrame == UNCHANGED <<fsVars, thVars, svVars, ppVars, arg>>

\* the record is made from the file
OpenNewInfoBlob ==
    /\ res = <<>>
    /\ res' = [pc |-> "parsed", pi |-> OpenNewInfoTags(arg.f), E |-> {},
               f |-> arg.f, upd |-> <<>>, wrote |-> FALSE, re |-> <<>>]
    /\ ExifFrame

\* one or two fields of the record are given new values
EditRecord ==
    /\ res # <<>> /\ res.pc = "parsed"
    /\ \E n1 \in ExifFields, n2 \in ExifFields, odd \in BOOLEAN :
          /\ "DateTimeOriginal" \notin {n1, n2} => ~odd
          /\ res' = [res EXCEPT
                       !.pc = "edited", !.E = {n1, n2},
                       !.pi = SetField(SetField(@, n1, NewField(n1, odd)),
                                       n2, NewField(n2, odd))]
    /\ ExifFrame

\* UpdateExif with the blob of the file
UpdateExifCall ==
    /\ res # <<>> /\ res.pc \in {"parsed", "edited"}
    /\ res' = [res EXCEPT !.pc = "updated",
                          !.upd = UpdateExifTags(arg.ver, res.pi, res.f,
                                                 res.f.blob)]
    /\ ExifFrame

SaveJpegUpdatedCall ==
    /\ res # <<>> /\ res.pc \in {"parsed", "edited"}
    /\ LET r == SaveJpegUpdatedTags(arg.ver, res.pi, res.f)
       IN res' = [res EXCEPT !.pc = "saved", !.pi = r.pi, !.f = r.f,
                             !.wrote = r.wrote]
    /\ ExifFrame

\* the metadata of the file as it is now is read into a new record
ReopenInfo ==
    /\ res # <<>> /\ res.pc = "saved"
    /\ res' = [res EXCEPT !.pc = "reread", !.re = OpenNewInfoTags(res.f)]
    /\ ExifFrame

NextExif ==
    \/ OpenNewInfoBlob
    \/ EditRecord
    \/ UpdateExifCall
    \/ SaveJpegUpdatedCall
    \/ ReopenInfo

SpecExif == InitExif /\ [][NextExif]_vars

\* C23: for every blob, UpdateExif with the blob and the record parsed from
\* it, not modified, reports no change, and SaveJpegUpdated then does not
\* write the file.
C23_NoChangeNoWrite ==
    (res # <<>> /\ res.E = {}) =>
        /\ res.pc = "updated" => ~res.upd.updt
        /\ res.pc \in {"saved", "reread"} => ~res.wrote /\ res.f = arg.f

\* C24: after DateTaken of a record is changed, UpdateExif, the write of
\* the file, the extraction of its metadata and ParseRawExif give a record
\* whose DateTaken is the new value to the second, and every other tag the
\* file had is still there with its value.
C24_DateTakenRoundTrip ==
    (res # <<>> /\ res.pc = "reread" /\ "DateTimeOriginal" \in res.E) =>
        /\ res.re.DateTaken \div 2 = res.pi.DateTaken \div 2
        /\ ~arg.f.blob.nil =>
              \A n \in DOMAIN arg.f.blob.tags \ (res.E \cup {"DateTime"}) :
                 /\ ~res.f.blob.nil
                 /\ n \in DOMAIN res.f.blob.tags
                 /\ res.f.blob.tags[n] = arg.f.blob.tags[n]

\* C25: UpdateExif sets a tag for a field among date taken, number, width,
\* height, orientation and description if and only if the field differs
\* between the record and the blob parsed again; it reports a change if and
\* only if one of them differs; and DateMod is stamped with the current
\* time if and only if it reports a change.
C25_UpdateExifSetsWhatDiffers ==
    (res # <<>> /\ res.pc = "updated" /\ arg.ver = "v2") =>
        LET ci == OpenNewInfoTags(res.f)
            old == IF res.f.blob.nil THEN <<>> ELSE res.f.blob.tags
            Differs(n) == FieldOf(ci, n) # FieldOf(res.pi, n)
        IN /\ \A n \in ExifFields :
                 /\ n \in res.upd.set <=> Differs(n)
                 /\ Differs(n) => /\ n \in DOMAIN res.upd.ib
                                  /\ res.upd.ib[n] = TagOf(res.pi, n)
                 /\ ~Differs(n) => IF n \in DOMAIN old
                                   THEN res.upd.ib[n] = old[n]
                                   ELSE n \notin DOMAIN res.upd.ib
           /\ res.upd.updt <=> \E n \in ExifFields : Differs(n)
           /\ res.upd.updt <=> res.upd.pi.DateMod = ExifNow
           /\ ~res.upd.updt => res.upd.pi.DateMod = res.pi.DateMod

\* C25, its case: of a record made from a file with a description and an
\* orientation the orientation and the height are changed, and UpdateExif
\* sets these two tags and no other, and stamps DateMod
C25_Witness ==
    /\ res # <<>> /\ res.pc = "updated" /\ arg.ver = "v2"
    /\ res.E = {"Orientation", "PixelYDimension"}
    /\ {"ImageDescription", "Orientation", "PixelXDimension",
        "PixelYDimension"} \subseteq DOMAIN arg.f.blob.tags
    /\ res.upd.set = {"Orientation", "PixelYDimension"}
    /\ res.upd.ib["Orientation"] = Rotated180
    /\ res.upd.ib["ImageDescription"] = "desc"
    /\ res.upd.updt /\ res.upd.pi.DateMod = ExifNow

(***************************************************************************)
(* The tags ParseRawExif has no case for.  The entries are those of every  *)
(* directory of the metadata (IFD, its Exif and GPS directories, and IFD1  *)
(* of the thumbnail), in the order they are visited.                       *)
(***************************************************************************)
MaxTags == 3
\* names without a case (Make, XResolution) and one with a case
VisitNames == {"Make", "XResolution", "Orientation"}
HandledNames == {"Orientation"}
\* what the visitor meets at an entry: a tag it can read, an id the tag
\* index does not have, a value of an undefined type that is not handled,
\* or a value that cannot be read
VisitKinds == {"ok", "notfound", "undefined", "badvalue"}
VisitEntries ==
    {e \in [TagName : VisitNames, IfdPath : {"IFD", "IFD1"}, val : {1, 2},
            kind : VisitKinds] :
        e.val = IF e.IfdPath = "IFD" THEN 1 ELSE 2}
VisitLists ==
    {es \in UNION {[1..n -> VisitEntries] : n \in 0..MaxTags} :
        \A i, j \in 1..Len(es) :
           i # j => <<es[i].TagName, es[i].IfdPath>>
                       # <<es[j].TagName, es[j].IfdPath>>}

\* exif.Visit with the visitor of ParseRawExif (go-exif v2): an entry is
\* appended when its tag is found and its value read; an unknown id and an
\* unhandled undefined type are passed over; any other error is returned,
\* which ends the visit with the entries collected so far
RECURSIVE Visit(_, _)
Visit(es, entries) ==
    IF es = <<>> THEN entries
    ELSE LET e == Head(es)
         IN IF e.kind = "notfound" THEN Visit(Tail(es), entries)
            ELSE IF e.kind = "undefined" THEN Visit(Tail(es), entries)
            ELSE IF e.kind = "badvalue" THEN entries
            ELSE Visit(Tail(es), Append(entries, e))

\* ParseRawExif, the loop: a name with a case sets its field, any other
\* name is put in Tags
RECURSIVE ParseEntryTags(_, _)
ParseEntryTags(entries, pi) ==
    IF entries = <<>> THEN pi
    ELSE LET e == Head(entries)
         IN ParseEntryTags(Tail(entries),
               IF e.TagName = "Orientation" THEN [pi EXCEPT !.Orient = e.val]
               ELSE [pi EXCEPT !.Tags = SetStandardWithName(@, e.TagName,
                                                            e.val)])

\* the entries of the loop: collected by the visitor (go-exif v2), or as
\* exif.GetFlatExifDataUniversalSearch gives them (go-exif v3)
ParseRawExifVisit(ver, es) ==
    ParseEntryTags(IF ver = "v2" THEN Visit(es, <<>>) ELSE es,
                   [Orient |-> NoOrient, Tags |-> <<>>])

InitVisit ==
    /\ IdleFS /\ IdleThumbs /\ IdleSave /\ IdleProg
    /\ res = <<>>
    /\ \E ver \in {"v2", "v3"}, es \in VisitLists :
          /\ ver = "v3" => \A i \in 1..Len(es) : es[i].kind = "ok"
          /\ arg = [ver |-> ver, entries |-> es]

ParseRawExifEntries ==
    /\ res = <<>>
    /\ res' = ParseRawExifVisit(arg.ver, arg.entries)
    /\ UNCHANGED <<fsVars, thVars, svVars, ppVars, arg>>

NextVisit == ParseRawExifEntries

SpecVisit == InitVisit /\ [][NextVisit]_vars

\* C26: every tag of the metadata whose name has no case of its own is in
\* Tags under its name with its value: none is dropped, and a tag whose
\* value cannot be converted is passed over without ending the parse of
\* the tags that follow.
C26_UnknownTagsKept ==
    res # <<>> =>
        \A i \in 1..Len(arg.entries) :
           LET e == arg.entries[i]
           IN (e.kind = "ok" /\ e.TagName \notin HandledNames) =>
                 /\ e.TagName \in DOMAIN res.Tags
                 /\ res.Tags[e.TagName] = e.val

(***************************************************************************)
(* Opening a file whose metadata is missing or damaged: OpenRawExif and    *)
(* OpenNewInfo, in the version that builds with go-exif v2 and in the one  *)
(* that builds with v3.                                                    *)
(***************************************************************************)
\* what a file holds where its metadata would be: nothing, metadata that
\* parses, or a segment that is found and cannot be read; "badjpeg" is a
\* Jpeg whose segments do not parse at all
MetaKinds == {"none", "ok", "corrupt", "badjpeg"}
OpenFiles ==
    [sup : {"Jpeg", "Png"}, meta : MetaKinds, opens : BOOLEAN,
     stat : BOOLEAN, mtime : {2, 3}]
RawOf(f) ==
    IF f.meta = "ok" THEN Blob([n \in {"DateTimeOriginal"} |-> TagVal(n)])
    ELSE Blob(<<>>)

\* OpenRawExif (go-exif v2): for a Jpeg the segments are parsed and the
\* Exif segment read, and every error but ErrNoExif of FindExif is
\* returned; for other formats the bytes are searched
OpenRawExifV2(f) ==
    IF ~f.opens THEN [raw |-> NoBlob, err |-> "open"]
    ELSE IF f.sup = "Jpeg"
    THEN IF f.meta = "badjpeg" THEN [raw |-> NoBlob, err |-> "ParseBytes"]
         ELSE IF f.meta = "none" THEN [raw |-> NoBlob, err |-> "nil"]
         ELSE IF f.meta = "corrupt" THEN [raw |-> NoBlob, err |-> "Exif"]
         ELSE [raw |-> RawOf(f), err |-> "nil"]
    ELSE IF f.meta = "none" THEN [raw |-> NoBlob, err |-> "ErrNoExif"]
    ELSE [raw |-> RawOf(f), err |-> "nil"]

\* OpenRawExif (go-exif v3): the bytes of any file are searched
OpenRawExifV3(f) ==
    IF ~f.opens THEN [raw |-> NoBlob, err |-> "open"]
    ELSE IF f.meta \in {"none", "badjpeg"}
    THEN [raw |-> NoBlob, err |-> "ErrNoExif"]
    ELSE [raw |-> RawOf(f), err |-> "nil"]

\* OpenNewInfo: an error of OpenRawExif other than ErrNoExif, or of
\* NewInfoForFile, gives no record
OpenNewInfoErr(ver, f) ==
    LET r == IF ver = "v2" THEN OpenRawExifV2(f) ELSE OpenRawExifV3(f)
    IN IF r.err \notin {"nil", "ErrNoExif"}
       THEN [nil |-> TRUE, err |-> r.err, pi |-> <<>>]
       ELSE IF ~f.stat THEN [nil |-> TRUE, err |-> "stat", pi |-> <<>>]
       ELSE [nil |-> FALSE, err |-> "nil",
             pi |-> ParseRawExifTags(NewInfoForFileTags(f), r.raw)]

InitOpen ==
    /\ IdleFS /\ IdleThumbs /\ IdleSave /\ IdleProg
    /\ res = <<>>
    /\ \E ver \in {"v2", "v3"}, f \in OpenFiles :
          /\ f.meta = "badjpeg" => f.sup = "Jpeg"
          /\ arg = [ver |-> ver, f |-> f]

OpenNewInfoAny ==
    /\ res = <<>>
    /\ res' = OpenNewInfoErr(arg.ver, arg.f)
    /\ UNCHANGED <<fsVars, thVars, svVars, ppVars, arg>>

NextOpen == OpenNewInfoAny

SpecOpen == InitOpen /\ [][NextOpen]_vars

\* C27: opening a file that has no metadata, or whose metadata is corrupt
\* or not recognised, gives a record with DateTaken = DateMod = the file's
\* modification time and no error: the file is taken to have no metadata
\* and is not rejected.
C27_NoMetadataNoError ==
    (res # <<>> /\ arg.f.opens /\ arg.f.stat
     /\ arg.f.meta \in {"none", "corrupt"}) =>
        /\ ~res.nil
        /\ res.err = "nil"
        /\ res.pi.DateTaken = arg.f.mtime
        /\ res.pi.DateMod = arg.f.mtime

(***************************************************************************)
(* RenameByDate (SpecRen): every record with a capture date gets the       *)
(* canonical name of its date and burst number; run twice in a row.        *)
(*   A base that is no canonical name is <<"x">>.                          *)
(***************************************************************************)
\* files in All when RenameByDate runs
MaxRen == 3
\* burst numbers a rename may give are 0..MaxBurst
MaxBurst == 3

RenBases == {<<1, 0>>, <<1, 1>>, <<2, 0>>, <<"x">>}
RenContent ==
    [fmt |-> "Jpeg", date |-> 0, orient |-> NoOrient, num |-> 0, mtime |-> 1]
RenRecord(b, dt, n) ==
    SetFileThumbFmBase(
        [NewInfoForFile(Mk(b, "jpg"), RenContent)
            EXCEPT !.DateTaken = dt, !.Number = n], b)

\* the burst number that takes no account of the names in use
UniqueNameNumberUpTo_first(w, dt, max) == 0

\* UniqueNameNumber with burst numbers up to max: the smallest number
\* whose canonical name is no store key and no file's base name
UniqueNameNumberUpTo(w, dt, max) ==
    LET free == {n \in 0..max : <<dt, n>> \notin UsedBases(w)}
    IN CHOOSE n \in free : \A m \in free : n <= m

\* the canonical name of a record: img_<DateTaken>_n<Number>
CanonicalBase(pi) == <<pi.DateTaken, pi.Number>>

\* RenameByDate, the record under key k: nothing without a capture date or
\* when the key is the canonical name already; otherwise the file, its
\* links and its thumbnail are renamed and the record is re-keyed
RenameByDateOne(w, k) ==
    LET pi == w.AllInfo[k]
        n == UniqueNameNumberUpTo(w, pi.DateTaken, MaxBurst)
        nfn == <<pi.DateTaken, n>>
        npi == SetFileThumbFmBase([pi EXCEPT !.Number = n], nfn)
        w1 == RenameFile(w, pi.File, npi.File)
    IN IF pi.DateTaken = ZeroTime \/ k = CanonicalBase(pi)
       THEN [w |-> w, log |-> {}]
       ELSE [w |-> [w1 EXCEPT
                      !.thumbs = IF k \in @ THEN (@ \ {k}) \cup {nfn} ELSE @,
                      !.AllInfo = With(Without(@, k), nfn, npi)],
             log |-> {[old |-> k, new |-> nfn, used |-> UsedBases(w)]}]

RECURSIVE RenameByDateSeq(_, _, _)
RenameByDateSeq(w, order, log) ==
    IF order = <<>> THEN [w |-> w, log |-> log]
    ELSE LET r == RenameByDateOne(w, Head(order))
         IN RenameByDateSeq(r.w, Tail(order), log \cup r.log)

\* RenameByDate over the records in the order the map gives them
RenameByDate(w, order) ==
    RenameByDateSeq(GetFolderFiles(UpdateFolders(w)), order, {})

\* what of the library a rename can change
RenState(w) ==
    [all |-> w.all, links |-> w.links, thumbs |-> w.thumbs,
     AllInfo |-> w.AllInfo]

InitRen ==
    /\ \E S \in SUBSET RenBases :
          /\ S # {} /\ Cardinality(S) <= MaxRen
          /\ all = [n \in {Mk(b, "jpg") : b \in S} |-> RenContent]
          /\ thumbs = S
          /\ \E K \in SUBSET S :
             \E dts \in [K -> 0..MaxDate], ns \in [K -> Nums] :
                AllInfo = [b \in K |-> RenRecord(b, dts[b], ns[b])]
    /\ trash = <<>>
    /\ disk = {"All", "Trash", "A"}
    /\ links = [f \in AlbumNames |-> IF f = "A" THEN DOMAIN all ELSE {}]
    /\ Folders = UpdateFolders([disk |-> disk, Folders |-> <<>>]).Folders
    /\ FolderFiles = NilFolderFiles
    /\ Folder = "All"
    /\ crashed = FALSE
    /\ nops = 0
    /\ lastOp = Other
    /\ IdleThumbs /\ IdleSave /\ IdleProg
    /\ arg = RenState(W)
    /\ res = <<>>

\* the RenameByDate button of the toolbar, pressed up to twice
RenameByDateButton ==
    /\ nops < 2
    /\ \E order \in Listings(DOMAIN AllInfo) :
          LET r == RenameByDate(W, order)
          IN /\ SetFS(r.w)
             /\ res' = [run |-> nops + 1, before |-> RenState(W),
                        log |-> r.log]
    /\ UNCHANGED <<Folder, lastOp, thVars, svVars, ppVars, arg>>

NextRen == RenameByDateButton

SpecRen == InitRen /\ [][NextRen]_vars

MaxDup == 3

DupBases == {<<1, 0>>, <<1, 1>>, <<1, 2>>, <<2, 0>>}
DupBytes == {"p", "q", "r"}
DupContent(b) ==
    [fmt |-> "Jpeg", date |-> 0, orient |-> NoOrient, num |-> 0, mtime |-> 1,
     bytes |-> b]
FileSize(c) == IF c.bytes = "r" THEN 2 ELSE 1

\* the pair step that keeps the first file of a pair whatever its number
CleanDupesPair_first(w, pi, pj) ==
    IF /\ pi.File \in DOMAIN w.all /\ pj.File \in DOMAIN w.all
       /\ w.all[pi.File].bytes = w.all[pj.File].bytes
    THEN TrashFiles(w, {pj})
    ELSE w

\* one pair of a bucket: when both files can be read and hold the same
\* bytes, the record with the smaller burst number is retained and the
\* other one goes to Trash, its links removed
CleanDupesPair(w, pi, pj) ==
    IF /\ pi.File \in DOMAIN w.all /\ pj.File \in DOMAIN w.all
       /\ w.all[pi.File].bytes = w.all[pj.File].bytes
    THEN IF pj.Number < pi.Number
         THEN TrashFiles(w, {pi})
         ELSE TrashFiles(w, {pj})
    ELSE w

\* all pairs of a bucket, (i, j) with i < j, from pair (i, j) on
RECURSIVE CleanDupesPairs(_, _, _, _)
CleanDupesPairs(w, pis, i, j) ==
    IF i >= Len(pis) THEN w
    ELSE IF j > Len(pis) THEN CleanDupesPairs(w, pis, i + 1, i + 2)
    ELSE CleanDupesPairs(CleanDupesPair(w, pis[i], pis[j]), pis, i, j + 1)

\* the buckets: the records whose file is there, by the file's size, each
\* in the order the store gives the records
DupBucket(w, order, sz) ==
    SelectSeq([i \in 1..Len(order) |-> w.AllInfo[order[i]]],
              LAMBDA pi : /\ pi.File \in DOMAIN w.all
                          /\ FileSize(w.all[pi.File]) = sz)

RECURSIVE CleanDupesBuckets(_, _, _)
CleanDupesBuckets(w, order, szs) ==
    IF szs = <<>> THEN w
    ELSE LET pis == DupBucket(w, order, Head(szs))
             w1 == IF Len(pis) > 1 THEN CleanDupesPairs(w, pis, 1, 2) ELSE w
         IN CleanDupesBuckets(w1, order, Tail(szs))

\* CleanDupes: a dry run only reports
CleanDupes(w, dryRun, order) ==
    IF dryRun THEN w ELSE CleanDupesBuckets(w, order, <<1, 2>>)

\* what of the library the removal of duplicates can change
DupState(w) ==
    [all |-> w.all, trash |-> w.trash, links |-> w.links,
     thumbs |-> w.thumbs, AllInfo |-> w.AllInfo]

InitDup ==
    /\ \E S \in SUBSET DupBases :
          /\ S # {} /\ Cardinality(S) <= MaxDup
          /\ \E bs \in [S -> DupBytes] :
                /\ all = [n \in {Mk(b, "jpg") : b \in S} |->
                            DupContent(bs[n.base])]
                /\ AllInfo = [b \in S |->
                                InfoFromFile(Mk(b, "jpg"), DupContent(bs[b]))]
          /\ thumbs = S
    /\ trash = <<>>
    /\ disk = {"All", "Trash", "A"}
    /\ links = [f \in AlbumNames |-> IF f = "A" THEN DOMAIN all ELSE {}]
    /\ Folders = UpdateFolders([disk |-> disk, Folders |-> <<>>]).Folders
    /\ FolderFiles = NilFolderFiles
    /\ Folder = "All"
    /\ crashed = FALSE
    /\ nops = 0
    /\ lastOp = Other
    /\ IdleThumbs /\ IdleSave /\ IdleProg
    /\ arg = DupState(W)
    /\ res = <<>>

\* the CleanDupes button of the toolbar, pressed up to twice
CleanDupesButton ==
    /\ nops < 2
    /\ \E dryRun \in BOOLEAN, order \in Listings(DOMAIN AllInfo) :
          /\ SetFS(CleanDupes(W, dryRun, order))
          /\ res' = [run |-> nops + 1, dry |-> dryRun,
                     before |-> DupState(W),
                     wet |-> IF res = <<>> THEN FALSE
                             ELSE res.wet \/ ~res.dry]
    /\ UNCHANGED <<Folder, lastOp, thVars, svVars, ppVars, arg>>

NextDup == CleanDupesButton

SpecDup == InitDup /\ [][NextDup]_vars

\* the files that hold the same bytes as nm held in All before the run
DupGroup(nm) ==
    {m \in DOMAIN res.before.all :
        res.before.all[m].bytes = res.before.all[nm].bytes}
NumberOf(nm) == res.before.AllInfo[nm.base].Number

\* C29: of every group of two or more files with the same bytes,
\* CleanDupes(false) leaves exactly one in All, one with the smallest burst
\* number of the group, and moves the others to Trash with their album
\* links removed; a second run moves nothing; CleanDupes(true) moves
\* nothing.
C29_CleanDupesKeepsLowest ==
    res # <<>> =>
        /\ res.dry => DupState(W) = res.before
        /\ (~res.dry /\ res.wet) => DupState(W) = res.before
        /\ ~res.dry =>
              \A nm \in DOMAIN res.before.all :
                 LET G == DupGroup(nm)
                     left == G \cap DOMAIN all
                 IN /\ Cardinality(left) = 1
                    /\ \A m \in left : \A o \in G : NumberOf(m) <= NumberOf(o)
                    /\ \A o \in G \ left :
                          /\ o \in DOMAIN trash
                          /\ trash[o] = res.before.all[o]
                          /\ \A f \in AlbumNames : o \notin links[f]
                    /\ \A m \in left : all[m] = res.before.all[m]

\* C29, its case: three files with the same bytes and burst numbers 0, 1
\* and 2, two of them in Trash after the first run, and a second run
C29_Witness ==
    /\ res # <<>> /\ res.run = 2 /\ ~res.dry /\ res.wet
    /\ Cardinality(DOMAIN trash) = 2
    /\ DOMAIN all = {Mk(<<1, 0>>, "jpg")}
    /\ DOMAIN trash = {Mk(<<1, 1>>, "jpg"), Mk(<<1, 2>>, "jpg")}

(***************************************************************************)
(* CleanAllInfo (SpecClean): the sweep flags the record of every file      *)
(* found in All and then prunes the records without a flag.  Info.Flagged  *)
(* is kept in memory only; whether the sweep clears the flags before it    *)
(* starts is in neither the source nor the specification, so both          *)
(* programs are modelled: arg.clears tells which one runs.                 *)
(***************************************************************************)
\* handler invocations in one session with sweeps
MaxSweeps == 3

\* CleanAllInfo: flags is the set of keys whose record has Flagged set
CleanAllInfo(w, flags, dryRun, clears) ==
    LET f0 == IF clears THEN {} ELSE flags \cap DOMAIN w.AllInfo
        f1 == f0 \cup ({nm.base : nm \in DOMAIN w.all} \cap DOMAIN w.AllInfo)
    IN [w |-> IF dryRun THEN w
              ELSE [w EXCEPT !.AllInfo = [k \in DOMAIN @ \cap f1 |-> @[k]]],
        flags |-> f1]

InitClean ==
    /\ \E S \in SUBSET DOMAIN InitFiles :
          /\ S # {}
          /\ all = [n \in S |-> InitFiles[n]]
    /\ trash = <<>>
    /\ disk = {"All", "Trash", "A"}
    /\ \E L \in SUBSET DOMAIN all :
          links = [f \in AlbumNames |-> IF f = "A" THEN L ELSE {}]
    /\ thumbs = {n.base : n \in DOMAIN all}
    /\ Folders = UpdateFolders([disk |-> disk, Folders |-> <<>>]).Folders
    /\ FolderFiles = NilFolderFiles
    /\ AllInfo = [b \in {n.base : n \in DOMAIN all} |->
                    LET n == CHOOSE m \in DOMAIN all : m.base = b
                    IN InfoFromFile(n, all[n])]
    /\ Folder = "All"
    /\ crashed = FALSE
    /\ nops = 0
    /\ lastOp = Other
    /\ IdleThumbs /\ IdleSave /\ IdleProg
    /\ arg = [clears |-> FALSE] \/ arg = [clears |-> TRUE]
    /\ res = [op |-> "none", flags |-> {}]

\* the CleanAllInfo button of the toolbar
CleanAllInfoButton ==
    /\ nops < MaxSweeps
    /\ \E dryRun \in BOOLEAN :
          LET r == CleanAllInfo(W, res.flags, dryRun, arg.clears)
          IN /\ SetFS(r.w)
             /\ res' = [op |-> "clean", flags |-> r.flags, dry |-> dryRun,
                        before |-> AllInfo]
    /\ UNCHANGED <<Folder, lastOp, thVars, svVars, ppVars, arg>>

\* a picture is moved to Trash between two sweeps: its record stays
CleanTrashFile ==
    /\ nops < MaxSweeps
    /\ \E k \in DOMAIN AllInfo :
          /\ AllInfo[k].File \in DOMAIN all
          /\ SetFS(TrashFiles(W, {AllInfo[k]}))
    /\ res' = [op |-> "trash", flags |-> res.flags]
    /\ UNCHANGED <<Folder, lastOp, thVars, svVars, ppVars, arg>>

NextClean == CleanAllInfoButton \/ CleanTrashFile

SpecClean == InitClean /\ [][NextClean]_vars

\* after a sweep that is no dry run the store keys are the base names of
\* the files in All; after a dry run the store is as it was
CleanAllInfoPrunes ==
    res.op = "clean" =>
        IF res.dry THEN AllInfo = res.before
        ELSE DOMAIN AllInfo = {nm.base : nm \in DOMAIN all}

(***************************************************************************)
(* Orientations.Rotate composed with itself (SpecRot).                     *)
(***************************************************************************)
RotDegs == {90, -90, 180}

\* the orientation an image is shown with: no information and undefined
\* are shown as Rotated0
Shown0(or) == IF or \in {NoOrient, OrientUndef} THEN Rotated0 ELSE or

\* whether OrientSize swaps width and height for the orientation
SwapsSize(or) == OrientSize(or, Point(1, 2)) = Point(2, 1)

InitRot ==
    /\ IdleFS /\ IdleThumbs /\ IdleSave /\ IdleProg
    /\ res = <<>>
    /\ \E or \in OrientValues, deg \in RotDegs \cup {0, 45} :
          arg = [or |-> or, deg |-> deg, n |-> 0]

\* one more call of Rotate on the result of the last
RotateCall ==
    /\ arg.n < 4
    /\ arg' = [arg EXCEPT !.n = @ + 1]
    /\ res' = [or |-> Rotate(IF res = <<>> THEN arg.or ELSE res.or, arg.deg),
               back |-> Rotate(Rotate(arg.or, arg.deg),
                              IF arg.deg = 180 THEN 180 ELSE 0 - arg.deg),
               half |-> Rotate(arg.or, 180)]
    /\ UNCHANGED <<fsVars, thVars, svVars, ppVars>>

NextRot == RotateCall

SpecRot == InitRot /\ [][NextRot]_vars

\* C31: for every orientation value, the flipped ones, NoOrient and
\* OrientUndef included, and every deg of 90, -90 and 180, Rotate gives the
\* orientation updated by the rotation: Rotate(deg) and then the opposite
\* rotation shows the picture as at the start, two Rotate(90) are one Rotate(180),
\* four Rotate(90) give the start again, and a rotation by 90 or -90
\* toggles whether OrientSize swaps width and height.
C31_RotateComposes ==
    (res # <<>> /\ arg.or \in NoOrient..OrientUndef /\ arg.deg \in RotDegs) =>
        /\ Shown0(res.back) = Shown0(arg.or)
        /\ (arg.deg = 90 /\ arg.n = 2) => res.or = res.half
        /\ (arg.deg = 90 /\ arg.n = 4) => Shown0(res.or) = Shown0(arg.or)
        /\ (arg.deg \in {90, -90} /\ arg.n = 1) =>
              SwapsSize(res.or) # SwapsSize(arg.or)

(***************************************************************************)
(* RotateImage on the pixels (SpecPix).  An image is what was done to the  *)
(* scene it shows: [rot, flip] is the scene flipped horizontally (if flip) *)
(* and then turned clockwise by rot eighths of a turn.                     *)
(***************************************************************************)
Eighths == 8
Img(r, f) == [rot |-> r % Eighths, flip |-> f]

\* transform.Rotate: clockwise by deg degrees
TransformRotate(img, deg) == Img(img.rot + (deg \div 45) + Eighths, img.flip)
\* transform.FlipH, and FlipV, which is FlipH and then half a turn
TransformFlipH(img) == Img(Eighths - img.rot, ~img.flip)
TransformFlipV(img) == TransformRotate(TransformFlipH(img), 180)

\* OrientImage: the image with the orientation applied
OrientImage(img, orient) ==
    IF orient <= Rotated0 \/ orient >= OrientUndef THEN img
    ELSE CASE orient = FlippedH -> TransformFlipH(img)
           [] orient = Rotated180 -> TransformRotate(img, 180)
           [] orient = FlippedV -> TransformFlipV(img)
           [] orient = FlippedHRotated90L ->
                 TransformRotate(TransformFlipH(img), 90)
           [] orient = Rotated90L -> TransformRotate(img, 90)
           [] orient = FlippedHRotated90R ->
                 TransformRotate(TransformFlipH(img), -90)
           [] orient = Rotated90R -> TransformRotate(img, -90)
           [] OTHER -> img

\* RotateImage on a picture [Sup, img, Orient, decodes]: the file's
\* format and pixels, the record's orientation, whether OpenImage succeeds.
\* Saving writes the pixels with the record's metadata; the record's
\* Orient is changed on the path through the Orientation tag only.
RotateImagePixels(p, deg) ==
    LET non90 == deg # 90 /\ deg # -90 /\ deg # 180
    IN IF non90 \/ p.Sup # "Jpeg"
       THEN IF ~p.decodes THEN [p |-> p, err |-> TRUE]
            ELSE [p |-> [p EXCEPT
                           !.img = TransformRotate(OrientImage(@, p.Orient),
                                                   deg),
                           !.Sup = IF @ = "Heic" THEN "Jpeg" ELSE @],
                  err |-> FALSE]
       ELSE [p |-> [p EXCEPT !.Orient = Rotate(@, deg)], err |-> FALSE]

\* the picture as it is displayed
Displayed(p) == OrientImage(p.img, p.Orient)

InitPix ==
    /\ IdleFS /\ IdleThumbs /\ IdleSave /\ IdleProg
    /\ res = <<>>
    /\ \E sup \in {"Jpeg", "Png", "Heic"}, r \in {0, 2}, f \in BOOLEAN,
          or \in NoOrient..OrientUndef, d \in BOOLEAN, deg \in EditDegs :
          arg = [p |-> [Sup |-> sup, img |-> Img(r, f), Orient |-> or,
                        decodes |-> d],
                 deg |-> deg]

RotateImageCall ==
    /\ res = <<>>
    /\ res' = RotateImagePixels(arg.p, arg.deg)
    /\ UNCHANGED <<fsVars, thVars, svVars, ppVars, arg>>

NextPix == RotateImageCall

SpecPix == InitPix /\ [][NextPix]_vars

\* C32: after RotateImage(pi, deg) the picture as displayed, the stored
\* pixels with the record's Orient applied, is the picture displayed
\* before turned by deg, on the path through the Orientation tag (a Jpeg
\* and 90, -90 or 180) and on the path through the pixels (any other angle
\* or format): an orientation that went into the saved pixels is not
\* applied a second time.
C32_RotateImageDisplayed ==
    (res # <<>> /\ ~res.err) =>
        Displayed(res.p) = TransformRotate(Displayed(arg.p), arg.deg)

(***************************************************************************)
(* SaveJpegExif (SpecSkip): newWriterExif writes the start marker and the  *)
(* APP1 segment, and the encoder's output goes through writerSkipper,      *)
(* which drops its first two bytes, in whatever pieces the encoder writes  *)
(* it.  The bytes of the metadata are stood for by their number.           *)
(***************************************************************************)
\* Write calls the encoder makes
MaxWrites == 3
\* the width of the segment's length field
LenBits == 16

\* the encoder's output: its own start marker, then the picture
EncOut == <<255, 216, 17, 34>>
\* the length of the metadata handed to SaveJpegExif, without the prefix
RawLens == {0, 10, 65527, 65528, 65529}
PrefixLen == 6

RECURSIVE SeqSum(_)
SeqSum(s) == IF s = <<>> THEN 0 ELSE Head(s) + SeqSum(Tail(s))

\* the ways of writing n bytes in up to MaxWrites calls, empty ones too
Splits(n) ==
    UNION {{s \in [1..k -> 0..n] : SeqSum(s) = n} : k \in 1..MaxWrites}

\* AddExifPrefix: the prefix Exif00 is added when it is not there
AddExifPrefix(raw) == IF raw.pfx THEN raw.len ELSE PrefixLen + raw.len

\* binary.Write of a uint16, big-endian
Uint16(n) == n % (2^LenBits)
BigEndian(v) == <<v \div 256, v % 256>>

\* newWriterExif: the start marker, the APP1 marker, the length and the
\* segment are written to the file; the writer returned skips 2 bytes
newWriterExif(exif) ==
    [hdr |-> <<255, 216>> \o <<255, 225>> \o BigEndian(Uint16(exif + 2)),
     seg |-> exif, body |-> <<>>, bytesToSkip |-> 2]

\* a Write that skips nothing
writerSkipperWrite_all(w, data) ==
    [w |-> [w EXCEPT !.body = @ \o data], n |-> Len(data)]

\* writerSkipper.Write: [w, n], the writer after the call and the count
\* returned
writerSkipperWrite(w, data) ==
    IF w.bytesToSkip <= 0
    THEN [w |-> [w EXCEPT !.body = @ \o data], n |-> Len(data)]
    ELSE IF Len(data) < w.bytesToSkip
    THEN [w |-> [w EXCEPT !.bytesToSkip = @ - Len(data)], n |-> Len(data)]
    ELSE LET rest == SubSeq(data, w.bytesToSkip + 1, Len(data))
         IN [w |-> [w EXCEPT !.body = @ \o rest, !.bytesToSkip = 0],
             n |-> Len(rest) + w.bytesToSkip]

InitSkip ==
    /\ IdleFS /\ IdleThumbs /\ IdleSave /\ IdleProg
    /\ res = <<>>
    /\ \E n \in RawLens, pfx \in BOOLEAN, l \in 2..Len(EncOut) :
       \E s \in Splits(l) :
          arg = [raw |-> [len |-> IF pfx THEN n + PrefixLen ELSE n,
                          pfx |-> pfx],
                 out |-> SubSeq(EncOut, 1, l), split |-> s]

\* SaveJpegExif up to jpeg.Encode
SaveJpegExifCreate ==
    /\ res = <<>>
    /\ res' = [w |-> newWriterExif(AddExifPrefix(arg.raw)), i |-> 1,
               pos |-> 0, ns |-> <<>>]
    /\ UNCHANGED <<fsVars, thVars, svVars, ppVars, arg>>

\* jpeg.Encode, one Write of the encoder
EncodeWrite ==
    /\ res # <<>> /\ res.i <= Len(arg.split)
    /\ LET data == SubSeq(arg.out, res.pos + 1, res.pos + arg.split[res.i])
           r == writerSkipperWrite(res.w, data)
       IN res' = [w |-> r.w, i |-> res.i + 1, pos |-> res.pos + Len(data),
                  ns |-> Append(res.ns, r.n)]
    /\ UNCHANGED <<fsVars, thVars, svVars, ppVars, arg>>

NextSkip == SaveJpegExifCreate \/ EncodeWrite

SpecSkip == InitSkip /\ [][NextSkip]_vars

SkipDone == res # <<>> /\ res.i > Len(arg.split)
SegLen == IF arg.raw.pfx THEN arg.raw.len ELSE arg.raw.len + PrefixLen

DelRecord(op, w, pics) ==
    res' = [op |-> op, fld |-> Folder, pics |-> pics, before |-> w,
            at |-> nops + 1]

\* DeleteCurPic (and the grid's ImgGridDeleted signal, which does the same
\* for the picture at the index it gives)
DeleteCurPicView ==
    /\ Running
    /\ \E k \in Shown :
          /\ SetFS(IF Folder = "All" THEN TrashFiles(W, {AllInfo[k]})
                   ELSE DeleteInFolder(W, Folder, {AllInfo[k]}))
          /\ DelRecord("DeleteCurPic", W, {AllInfo[k]})
    /\ lastOp' = Other
    /\ UNCHANGED <<Folder, thVars, svVars, ppVars, arg>>

\* EmptyTrash
EmptyTrashView ==
    /\ Running
    /\ LET w1 == DirInfo(W, "Trash")
           info == {w1.AllInfo[nm.base] : nm \in Listed(w1, "Trash")}
       IN /\ SetFS(DirInfo(DeleteInFolder(w1, "Trash", info), "Trash"))
          /\ DelRecord("EmptyTrash", W, info)
    /\ Folder' = "Trash"
    /\ lastOp' = Other
    /\ UNCHANGED <<thVars, svVars, ppVars, arg>>

NextDel ==
    \/ FileNodeSelected
    \/ NewFolder
    \/ PixPaste
    \/ DeleteCurPicView
    \/ EmptyTrashView

SpecDel == InitFS /\ [][NextDel]_vars

\* the delete whose effect the state shows
DelJust == res # <<>> /\ res.at = nops

\* C34: deleting a picture while All is viewed moves it to Trash; while an
\* album is viewed it removes that album's link only: the file in All, the
\* links of the other albums, the store entry and the thumbnail are as
\* before; while Trash is viewed, or through EmptyTrash, it removes the
\* file, its thumbnail and its store entry for good.
C34_DeleteByFolder ==
    DelJust =>
        \A pi \in res.pics :
           LET fn == pi.File
               b == res.before
           IN CASE res.op = "EmptyTrash" \/ res.fld = "Trash" ->
                     /\ fn \notin DOMAIN trash
                     /\ fn.base \notin thumbs
                     /\ fn.base \notin DOMAIN AllInfo
                [] res.fld = "All" ->
                     /\ fn \notin DOMAIN all
                     /\ fn \in DOMAIN trash /\ trash[fn] = b.all[fn]
                [] OTHER ->
                     /\ fn \notin links[res.fld]
                     /\ links = [b.links EXCEPT ![res.fld] = @ \ {fn}]
                     /\ all = b.all /\ trash = b.trash
                     /\ AllInfo = b.AllInfo /\ thumbs = b.thumbs

\* C34, its case: a picture linked in album A and in album B is deleted
\* while A is viewed
C34_Witness ==
    /\ DelJust /\ res.op = "DeleteCurPic" /\ res.fld = "A"
    /\ \E pi \in res.pics :
          /\ pi.File \in res.before.links["A"]
          /\ pi.File \in links["B"]
          /\ pi.File \in DOMAIN all

(***************************************************************************)
(* A picture pasted onto Trash and then onto All again (SpecTrash).        *)
(***************************************************************************)
\* PixPaste onto Trash: TrashFiles of the pasted pictures that have a record
TrashPaste ==
    /\ Running /\ "Trash" \in disk
    /\ \E S \in Pasted :
          /\ SetFS(TrashFiles(W, Recs(S)))
          /\ res' = [op |-> "TrashFiles", ks |-> S, before |-> W,
                     trashed |-> <<>>, at |-> nops + 1]
    /\ lastOp' = Other
    /\ UNCHANGED <<Folder, thVars, svVars, ppVars, arg>>

\* PixPaste of the same pictures onto All: UntrashFiles
UntrashPaste ==
    /\ Running /\ "All" \in disk
    /\ res # <<>> /\ res.op = "TrashFiles" /\ res.at = nops
    /\ res.ks \subseteq DOMAIN AllInfo
    /\ SetFS(UntrashFiles(W, Recs(res.ks)))
    /\ res' = [res EXCEPT !.op = "UntrashFiles", !.at = nops + 1,
                          !.trashed = W]
    /\ lastOp' = Other
    /\ UNCHANGED <<Folder, thVars, svVars, ppVars, arg>>

NextTrash ==
    \/ FileNodeSelected
    \/ NewFolder
    \/ PixPaste
    \/ TrashPaste
    \/ UntrashPaste

SpecTrash == InitFS /\ [][NextTrash]_vars

\* C35: TrashFiles keeps the store record and the thumbnail of a trashed
\* picture, so that UntrashFiles after TrashFiles brings the file back to
\* All under the same name, its record and thumbnail still good; the album
\* links that trashing removed are not made again by untrashing.
C35_TrashUntrash ==
    (res # <<>> /\ res.at = nops) =>
        \A k \in res.ks :
           LET b == res.before
               fn == b.AllInfo[k].File
           IN fn \in DOMAIN b.all =>
                 /\ k \in DOMAIN AllInfo /\ AllInfo[k] = b.AllInfo[k]
                 /\ k \in b.thumbs => k \in thumbs
                 /\ res.op = "TrashFiles" =>
                       /\ fn \in DOMAIN trash /\ trash[fn] = b.all[fn]
                       /\ fn \notin DOMAIN all
                 /\ res.op = "UntrashFiles" =>
                       /\ fn \in DOMAIN all /\ all[fn] = b.all[fn]
                       /\ fn \notin DOMAIN trash
                       /\ links = res.trashed.links

\* C35, its case: a picture linked in album A went to Trash and came back,
\* and the link is gone
C35_Witness ==
    /\ res # <<>> /\ res.at = nops /\ res.op = "UntrashFiles"
    /\ \E k \in res.ks :
          /\ res.before.AllInfo[k].File \in res.before.links["A"]
          /\ res.before.AllInfo[k].File \in DOMAIN all
          /\ res.before.AllInfo[k].File \notin links["A"]
          /\ k \in thumbs

(***************************************************************************)
(* The operations that move, rename and copy files, called one after the   *)
(* other with any arguments (SpecOver): TrashFiles, UntrashFiles,          *)
(* RenameFile, RenameAsJpeg and Duplicate.  None of them deletes a file,   *)
(* so the files of All and Trash together get fewer only when an os.Rename *)
(* replaces the file that had the destination name.                        *)
(***************************************************************************)
NFiles(w) == Cardinality(DOMAIN w.all) + Cardinality(DOMAIN w.trash)

OverStep(op, w) ==
    /\ SetFS(w)
    /\ res' = [op |-> op, before |-> NFiles(W), after |-> NFiles(w)]
    /\ lastOp' = Other
    /\ UNCHANGED <<Folder, thVars, svVars, ppVars, arg>>

OverTrashFiles ==
    /\ Running
    /\ \E S \in Pasted : OverStep("TrashFiles", TrashFiles(W, Recs(S)))

OverUntrashFiles ==
    /\ Running
    /\ \E S \in Pasted : OverStep("UntrashFiles", UntrashFiles(W, Recs(S)))

OverRenameFile ==
    /\ Running
    /\ \E oldnm \in DOMAIN all, newnm \in Names :
          OverStep("RenameFile", RenameFile(W, oldnm, newnm))

OverRenameAsJpeg ==
    /\ Running
    /\ \E k \in DOMAIN AllInfo :
          /\ AllInfo[k].Sup # "Jpeg"
          /\ OverStep("RenameAsJpeg", RenameAsJpeg(W, k))

OverDuplicate ==
    /\ Running
    /\ Cardinality(DOMAIN all \cup DOMAIN trash) < MaxPics
    /\ \E k \in DOMAIN AllInfo :
          /\ HasUniqueName(W, AllInfo[k].DateTaken)
          /\ OverStep("Duplicate", Duplicate(W, k, "All"))

NextOver ==
    \/ OverTrashFiles
    \/ OverUntrashFiles
    \/ OverRenameFile
    \/ OverRenameAsJpeg
    \/ OverDuplicate

SpecOver == InitFS /\ [][NextOver]_vars

\* C36: no sequence of TrashFiles, UntrashFiles, RenameFile, RenameAsJpeg
\* and Duplicate overwrites a file: a move or rename to a name that is
\* taken in the target directory does not replace the file there, so no
\* picture of All or Trash disappears through them.
C36_NoOverwrite ==
    res # <<>> => res.after >= res.before

(***************************************************************************)
(* The view's parallel lists and the grid's image list (PixView.Info,      *)
(* PixView.Thumbs, ImgGrid.Images) under the grid's delete and insert      *)
(* events.  A thumbnail name is a number, 0 a name no record has; a date   *)
(* is a number of seconds, ZeroTime the zero time.                         *)
(***************************************************************************)
MaxGrid == 3
MaxEvents == 3
GridThumbs == 1..MaxGrid
GridDates == {100, 200}
Minute == 60

\* s[:idx] ++ s[idx+1:], idx counted from 0
SliceDeleteAt(s, idx) ==
    SubSeq(s, 1, idx) \o SubSeq(s, idx + 2, Len(s))

\* ImgGrid.ImageInsertAt: the files go in before index idx
SliceInsertAt(s, idx, files) ==
    SubSeq(s, 1, idx) \o files \o SubSeq(s, idx + 1, Len(s))

\* Go's integer division rounds toward zero
GoQuo(a, b) == IF a >= 0 THEN a \div b ELSE 0 - ((0 - a) \div b)

\* Pics.IdxByThumb: the index from 1 of the first record with the
\* thumbnail, 0 if none
IdxByThumb(pc, th) ==
    IF \E i \in 1..Len(pc) : pc[i].Thumb = th
    THEN CHOOSE i \in 1..Len(pc) :
            /\ pc[i].Thumb = th
            /\ \A j \in 1..(i - 1) : pc[j].Thumb # th
    ELSE 0

\* the loop of ImgGridMoveDates over the inserted names
RECURSIVE MoveDatesLoop(_, _, _, _)
MoveDatesLoop(info, nf, cdt, inc) ==
    IF nf = <<>> THEN info
    ELSE LET ii == IdxByThumb(info, nf[1])
         IN MoveDatesLoop(IF ii = 0 THEN info
                          ELSE [info EXCEPT ![ii].DateTaken = cdt],
                          Tail(nf),
                          IF ii = 0 THEN cdt ELSE cdt + inc,
                          inc)

\* the view after DirInfo: the records in date order, their thumbnails,
\* and the grid showing them
GridDirInfo(v) ==
    LET info == SortByDate(v.Info, TRUE)
    IN [v EXCEPT !.Info = info, !.Thumbs = PicsThumbs(info),
                 !.Images = PicsThumbs(info)]

\* PixView.ImgGridMoveDates(idx): the inserted names are dated between
\* their new neighbours, then the folder is reconciled
ImgGridMoveDates(v, idx) ==
    LET ni == Len(v.Images) - Len(v.Thumbs)
        nf == SubSeq(v.Images, idx + 1, idx + ni)
        stdate == IF idx > 0 THEN v.Info[idx].DateTaken ELSE ZeroTime
        edate == IF idx + ni < Len(v.Info)
                 THEN v.Info[idx + ni + 1].DateTaken ELSE ZeroTime
        both == stdate # ZeroTime /\ edate # ZeroTime
        inc == IF both THEN GoQuo(edate - stdate, 10 + ni)
               ELSE IF stdate = ZeroTime THEN 0 - Minute ELSE Minute
        cdt == IF both THEN stdate + 5 * inc
               ELSE IF stdate = ZeroTime THEN edate - Minute
               ELSE stdate + Minute
    IN GridDirInfo([v EXCEPT !.Info = MoveDatesLoop(v.Info, nf, cdt, inc)])

\* PixView.PicDeleteAt
PicDeleteAt(v, idx) ==
    [v EXCEPT !.Info = SliceDeleteAt(@, idx),
              !.Thumbs = SliceDeleteAt(@, idx)]

\* the handler of the grid's ImageSig in PixView.Config
ImageSigHandler(v, sig, idx) ==
    IF idx < 0 \/ idx >= Len(v.Info) THEN v
    ELSE IF sig = "Deleted" THEN PicDeleteAt(v, idx)
    ELSE IF v.Folder = "Trash" THEN [v EXCEPT !.Images = v.Thumbs]
    ELSE ImgGridMoveDates(v, idx)

\* a folder just reconciled: up to MaxGrid pictures in date order
InitGrid ==
    /\ IdleFS /\ IdleThumbs /\ IdleSave /\ IdleProg
    /\ arg = <<>>
    /\ \E ths \in SUBSET GridThumbs, fl \in {"All", "Trash"} :
       \E ds \in [ths -> GridDates] :
       \E ord \in [1..Cardinality(ths) -> ths] :
          /\ \A i, j \in DOMAIN ord : i # j => ord[i] # ord[j]
          /\ LET pc == [i \in DOMAIN ord |->
                           [Thumb |-> ord[i], DateTaken |-> ds[ord[i]]]]
             IN res = GridDirInfo([Info |-> pc, Thumbs |-> <<>>,
                                   Images |-> <<>>, Folder |-> fl,
                                   n |-> 0, last |-> "DirInfo"])

\* the folder is selected again, or a handler ends with DirInfo
Reconciled ==
    /\ res.n < MaxEvents
    /\ res' = [GridDirInfo(res) EXCEPT !.n = @ + 1, !.last = "DirInfo"]
    /\ UNCHANGED <<fsVars, thVars, svVars, ppVars, arg>>

\* ImgGrid.ImageDeleteAt(idx) and the handling of the event it emits
ImageDeleteAt ==
    /\ res.n < MaxEvents
    /\ \E idx \in 0..(Len(res.Images) - 1) :
          res' = [ImageSigHandler(
                     [res EXCEPT !.Images = SliceDeleteAt(@, idx)],
                     "Deleted", idx)
                  EXCEPT !.n = @ + 1, !.last = "Deleted"]
    /\ UNCHANGED <<fsVars, thVars, svVars, ppVars, arg>>

\* ImgGrid.ImageInsertAt(idx, files) and the handling of the event it
\* emits; the files are names from the clipboard or the drag
ImageInsertAt ==
    /\ res.n < MaxEvents
    /\ \E idx \in 0..Len(res.Images), f \in GridThumbs \cup {0} :
          res' = [ImageSigHandler(
                     [res EXCEPT !.Images = SliceInsertAt(@, idx, <<f>>)],
                     "Inserted", idx)
                  EXCEPT !.n = @ + 1, !.last = "Inserted"]
    /\ UNCHANGED <<fsVars, thVars, svVars, ppVars, arg>>

NextGrid == Reconciled \/ ImageDeleteAt \/ ImageInsertAt

SpecGrid == InitGrid /\ [][NextGrid]_vars

\* C37: after any sequence of reconciliations and delete or insert events
\* of the grid, Info and Thumbs have the same length, Thumbs[i] is the
\* thumbnail of Info[i] for every i, and the grid's image list is Thumbs.
C37_GridAligned ==
    /\ Len(res.Info) = Len(res.Thumbs)
    /\ \A i \in 1..Len(res.Info) : res.Thumbs[i] = res.Info[i].Thumb
    /\ res.Images = res.Thumbs

\* the part of C37 about Info and Thumbs alone
GridInfoThumbs ==
    /\ Len(res.Info) = Len(res.Thumbs)
    /\ \A i \in 1..Len(res.Info) : res.Thumbs[i] = res.Info[i].Thumb

(***************************************************************************)
(* The current picture of the view (PixView.CurFile, PixView.CurIdx) under *)
(* the handlers that view, edit and delete pictures.  A picture is a       *)
(* number, 0 the empty CurFile; Info holds the pictures of the folder, the *)
(* records being shared with AllInfo.                                      *)
(***************************************************************************)
NewDates == {50, 150, 250}

\* the files of a directory in the order of a listing
RECURSIVE FilesInOrder(_)
FilesInOrder(S) ==
    IF S = {} THEN <<>>
    ELSE LET m == CHOOSE x \in S : \A y \in S : x <= y
         IN <<m>> \o FilesInOrder(S \ {m})

\* DirInfo on the view: the files of the folder in date order
CurDirInfo(v) ==
    LET fs == FilesInOrder(v.dir)
        pc == [i \in DOMAIN fs |-> [File |-> fs[i],
                                    DateTaken |-> v.date[fs[i]]]]
        info == SortByDate(pc, TRUE)
    IN [v EXCEPT !.Info = [i \in DOMAIN info |-> info[i].File]]

\* PixView.SetCurFile
SetCurFile(v, pi, idx) == [v EXCEPT !.CurFile = pi, !.CurIdx = idx]

\* PixView.ViewRefresh
ViewRefresh(v) ==
    LET nf == Len(v.Info)
        hi == IF v.CurIdx >= nf THEN nf - 1 ELSE v.CurIdx
        ix == IF hi < 0 THEN 0 ELSE hi
    IN IF nf = 0 THEN v ELSE SetCurFile(v, v.Info[ix + 1], ix)

\* PixView.ViewNext
ViewNext(v) ==
    LET nf == Len(v.Info)
        nx == v.CurIdx + 1
    IN IF nf = 0 \/ nx >= nf THEN v ELSE SetCurFile(v, v.Info[nx + 1], nx)

\* PixView.ViewPrev
ViewPrev(v) ==
    LET nf == Len(v.Info)
        ci == IF v.CurIdx >= nf THEN nf - 1 ELSE v.CurIdx
        nx == ci - 1
    IN IF nf = 0 THEN v
       ELSE IF nx < 0 THEN [v EXCEPT !.CurIdx = ci]
       ELSE SetCurFile(v, v.Info[nx + 1], nx)

\* TrashFiles in All, DeleteInFolder elsewhere, of one picture
CurRemoveFile(v, pi) ==
    IF v.Folder = "All" THEN [v EXCEPT !.dir = @ \ {pi}, !.gone = pi]
    ELSE [v EXCEPT !.dir = @ \ {pi}, !.AllInfo = @ \ {pi}, !.gone = pi]

\* PixView.PicDeleteAt on the view; a slice expression out of range panics
CurPicDeleteAt(v, idx) ==
    IF idx + 1 > Len(v.Info) THEN [v EXCEPT !.panicked = TRUE]
    ELSE [v EXCEPT !.Info = SliceDeleteAt(@, idx),
                   !.dropped = v.Info[idx + 1]]

\* PixView.DeleteCurPic
CurDeleteCurPic(v) ==
    IF v.CurFile \notin v.AllInfo THEN v
    ELSE CurPicDeleteAt(CurRemoveFile(v, v.CurFile), v.CurIdx)

\* PixView.SetDateTakenCur
CurSetDateTakenCur(v, date) ==
    IF v.CurFile \notin v.AllInfo THEN v
    ELSE CurDirInfo([v EXCEPT !.date[v.CurFile] = date])

\* a folder just reconciled, no picture viewed yet
InitCur ==
    /\ IdleFS /\ IdleThumbs /\ IdleSave /\ IdleProg
    /\ arg = <<>>
    /\ \E ths \in SUBSET GridThumbs, fl \in {"All", "Trash"} :
       \E ds \in [GridThumbs -> GridDates] :
          res = CurDirInfo([Info |-> <<>>, dir |-> ths, AllInfo |-> ths,
                            date |-> ds, Folder |-> fl, CurFile |-> 0,
                            CurIdx |-> 0, panicked |-> FALSE, gone |-> 0,
                            dropped |-> 0, n |-> 0, last |-> "DirInfo"])

CurStep(op, v) ==
    /\ ~res.panicked
    /\ res.n < MaxEvents
    /\ res' = [v EXCEPT !.n = @ + 1, !.last = op]
    /\ UNCHANGED <<fsVars, thVars, svVars, ppVars, arg>>

\* a double click in the grid: ViewFile through the ImageSig handler
CurViewFile ==
    \E idx \in 0..(Len(res.Info) - 1) :
       CurStep("ViewFile", SetCurFile(res, res.Info[idx + 1], idx))

\* the arrow keys of the picture tab
CurViewNext == CurStep("ViewNext", ViewNext(res))

CurViewPrev == CurStep("ViewPrev", ViewPrev(res))

\* Control+R, Control+L: RotateSel of the current picture, ViewRefresh
CurRotateKey ==
    CurStep("Rotate",
            ViewRefresh(IF res.CurFile \in res.AllInfo
                        THEN CurDirInfo(res) ELSE res))

\* Delete, Backspace: DeleteCurPic, ViewRefresh
CurDeleteKey ==
    LET v == CurDeleteCurPic([res EXCEPT !.gone = 0, !.dropped = 0])
    IN CurStep("DeleteCurPic", IF v.panicked THEN v ELSE ViewRefresh(v))

\* SetDate of the grid's context menu: SetCurFile, SetDateTakenCur
CurSetDate ==
    \E idx \in 0..(Len(res.Info) - 1), date \in NewDates :
       CurStep("SetDateTakenCur",
               CurSetDateTakenCur(SetCurFile(res, res.Info[idx + 1],
                                             idx), date))

\* a picture deleted in the grid: the ImageSig handler
CurGridDeleted ==
    \E idx \in 0..(Len(res.Info) - 1) :
       CurStep("Deleted",
               CurPicDeleteAt(CurRemoveFile([res EXCEPT !.gone = 0,
                                                        !.dropped = 0],
                                            res.Info[idx + 1]), idx))

\* the folder selected again: DirInfo
CurFolderSelected == CurStep("DirInfo", CurDirInfo(res))

NextCur ==
    \/ CurViewFile
    \/ CurViewNext
    \/ CurViewPrev
    \/ CurRotateKey
    \/ CurDeleteKey
    \/ CurSetDate
    \/ CurGridDeleted
    \/ CurFolderSelected

SpecCur == InitCur /\ [][NextCur]_vars

\* the current picture is where CurIdx says
CurAt ==
    /\ res.CurIdx \in 0..(Len(res.Info) - 1)
    /\ res.Info[res.CurIdx + 1] = res.CurFile

\* C38: whenever Info is not empty and a current picture is set, CurIdx is
\* an index of Info and Info[CurIdx] is the record CurFile names, also
\* after the operations that sort Info again or shorten it, and DeleteCurPic
\* takes from the view the picture it takes from disk.
C38_CurIdxNamesCurFile ==
    /\ (res.Info # <<>> /\ res.CurFile # 0) => CurAt
    /\ res.last = "DeleteCurPic" =>
          ~res.panicked /\ res.gone = res.dropped

\* right after ViewFile or ViewRefresh, C38's relation holds
CurAfterView ==
    (res.last \in {"ViewFile", "Rotate"} /\ res.Info # <<>>
     /\ res.CurFile # 0) => CurAt

\* a DeleteCurPic that took one picture from disk and another from the view
CurDeleteMismatch ==
    res.last = "DeleteCurPic" /\ res.gone # 0 /\ res.dropped # 0
    /\ res.gone # res.dropped

\* a DeleteCurPic that panicked in PicDeleteAt
CurDeletePanic == res.last = "DeleteCurPic" /\ res.panicked

(***************************************************************************)
(* The selection of the grid (ImgGrid.SelectedIdxs, ImgGrid.SelectedIdx)   *)
(* under clicks and DeleteIdxs.  The loops of SelectIdxAction in           *)
(* ExtendContinuous mode run one iteration per step.                       *)
(***************************************************************************)
MaxClicks == 4

SetMin(S) == CHOOSE x \in S : \A y \in S : x <= y
SetMax(S) == CHOOSE x \in S : \A y \in S : y <= x

\* the clamp of SelectIdxAction: idx = MinInt(idx, nf-1), then 0 if negative
ClampIdx(idx, nf) ==
    LET m == IF idx < nf - 1 THEN idx ELSE nf - 1
    IN IF m < 0 THEN 0 ELSE m

\* SelectIdxAction(idx, SelectQuiet)
SelectQuiet(g, idx) ==
    LET ix == ClampIdx(idx, g.nf)
    IN [g EXCEPT !.SelectedIdx = ix, !.sel = @ \cup {ix}]

\* ImgGrid.MoveDown(SelectQuiet): the grid after it and the index returned
MoveDown(g) ==
    IF g.SelectedIdx >= g.nf - 1
    THEN [g |-> [g EXCEPT !.SelectedIdx = g.nf - 1], r |-> 0 - 1]
    ELSE LET h == SelectQuiet(g, g.SelectedIdx + 1)
         IN [g |-> h, r |-> h.SelectedIdx]

\* ImgGrid.MoveUp(SelectQuiet)
MoveUp(g) ==
    IF g.SelectedIdx <= 0
    THEN [g |-> [g EXCEPT !.SelectedIdx = 0], r |-> 0 - 1]
    ELSE LET h == SelectQuiet(g, g.SelectedIdx - 1)
         IN [g |-> h, r |-> h.SelectedIdx]

\* the test of the loop the action is in
LoopOn(g) ==
    \/ g.pc = "down" /\ g.cidx < g.minIdx
    \/ g.pc = "up" /\ g.cidx > g.maxIdx

\* the action is over when its loop's test fails
LoopEnd(g) == IF LoopOn(g) THEN g ELSE [g EXCEPT !.pc = "idle"]

\* SelectIdxAction(idx, ExtendContinuous) up to its loop
ExtendContinuous(g, idx) ==
    LET ix == ClampIdx(idx, g.nf)
        one == [g EXCEPT !.SelectedIdx = ix, !.sel = @ \cup {ix},
                         !.idx = ix, !.prev = g.sel]
    IN IF g.sel = {} THEN one
       ELSE LoopEnd([one EXCEPT
               !.minIdx = SetMin(g.sel), !.maxIdx = SetMax(g.sel),
               !.cidx = ix,
               !.pc = IF ix < SetMin(g.sel) THEN "down"
                      ELSE IF ix > SetMax(g.sel) THEN "up" ELSE "idle"])

\* ImgGrid.DeleteIdxs: ImageDeleteAt of every selected index, highest
\* first; the slice expression of an index past the end panics
RECURSIVE DeleteIdxsFrom(_, _)
DeleteIdxsFrom(g, ixs) ==
    IF ixs = {} \/ g.panicked THEN g
    ELSE LET i == SetMax(ixs)
         IN DeleteIdxsFrom(IF i >= g.nf THEN [g EXCEPT !.panicked = TRUE]
                           ELSE [g EXCEPT !.nf = @ - 1],
                           ixs \ {i})

DeleteIdxs(g) == DeleteIdxsFrom(g, g.sel)

\* a grid just configured: no selection
InitSel ==
    /\ IdleFS /\ IdleThumbs /\ IdleSave /\ IdleProg
    /\ arg = <<>>
    /\ \E nf \in 1..MaxGrid :
          res = [nf |-> nf, sel |-> {}, SelectedIdx |-> 0, pc |-> "idle",
                 cidx |-> 0, minIdx |-> 0, maxIdx |-> 0, idx |-> 0,
                 prev |-> {}, panicked |-> FALSE, n |-> 0, last |-> "Config"]

SelEvent(op, g) ==
    /\ res.pc = "idle" /\ ~res.panicked
    /\ res.n < MaxClicks
    /\ res' = [g EXCEPT !.n = @ + 1, !.last = op]
    /\ UNCHANGED <<fsVars, thVars, svVars, ppVars, arg>>

\* a click: SelectIdxAction(idx, SelectOne)
ClickSelectOne ==
    \E idx \in 0..(res.nf - 1) :
       SelEvent("SelectOne", [res EXCEPT !.sel = {ClampIdx(idx, res.nf)},
                                         !.SelectedIdx = ClampIdx(idx, res.nf)])

\* a click with the shift key: SelectIdxAction(idx, ExtendContinuous)
ClickExtendContinuous ==
    \E idx \in 0..(res.nf - 1) :
       SelEvent("ExtendContinuous", ExtendContinuous(res, idx))

\* a click with the control key: SelectIdxAction(idx, ExtendOne)
ClickExtendOne ==
    \E idx \in 0..(res.nf - 1) :
       SelEvent("ExtendOne",
                IF idx \in res.sel THEN [res EXCEPT !.sel = @ \ {idx}]
                ELSE [res EXCEPT !.sel = @ \cup {idx}, !.SelectedIdx = idx])

\* the selected images are deleted
DeleteSelected == SelEvent("DeleteIdxs", DeleteIdxs(res))

\* one iteration of the loop `for cidx < minIdx`
LoopMoveDown ==
    /\ res.pc = "down"
    /\ LET m == MoveDown(res)
       IN res' = LoopEnd([m.g EXCEPT !.cidx = m.r])
    /\ UNCHANGED <<fsVars, thVars, svVars, ppVars, arg>>

\* one iteration of the loop `for cidx > maxIdx`
LoopMoveUp ==
    /\ res.pc = "up"
    /\ LET m == MoveUp(res)
       IN res' = LoopEnd([m.g EXCEPT !.cidx = m.r])
    /\ UNCHANGED <<fsVars, thVars, svVars, ppVars, arg>>

NextSel ==
    \/ ClickSelectOne
    \/ ClickExtendContinuous
    \/ ClickExtendOne
    \/ DeleteSelected
    \/ LoopMoveDown
    \/ LoopMoveUp

\* the loops keep running
SpecSel ==
    /\ InitSel /\ [][NextSel]_vars
    /\ WF_vars(LoopMoveDown) /\ WF_vars(LoopMoveUp)

\* the previous selection had indices of images that are gone
SelStale == \E i \in res.prev : i >= res.nf

\* an ExtendContinuous action has returned
ExtendReturned == res.last = "ExtendContinuous" /\ res.pc = "idle"

\* the indices from the clicked one to the nearest bound of the previous
\* selection
ExtendRange ==
    IF res.prev = {} THEN {res.idx}
    ELSE IF res.idx < SetMin(res.prev) THEN res.idx..SetMin(res.prev)
    ELSE IF res.idx > SetMax(res.prev) THEN SetMax(res.prev)..res.idx
    ELSE {res.idx}

\* what C39 says of an action that has returned
ExtendSelected ==
    ExtendReturned =>
       /\ ExtendRange \subseteq res.sel
       /\ res.sel \subseteq 0..(res.nf - 1)

\* C39: SelectIdxAction in ExtendContinuous mode always returns, and then
\* every index from the clicked one to the nearest bound of the previous
\* selection is selected and every selected index is in [0, NumImages),
\* also when the previous selection holds indices of deleted images.
C39_ExtendContinuous ==
    /\ (res.pc # "idle") ~> (res.pc = "idle")
    /\ []ExtendSelected

\* with no stale index in the previous selection C39 holds
ExtendFresh ==
    /\ (res.pc # "idle" /\ ~SelStale) ~> (res.pc = "idle")
    /\ [](~SelStale => ExtendSelected)

\* the loop `for cidx < minIdx` can make no progress any more
ExtendStuck ==
    /\ res.pc = "down" /\ res.cidx = 0 - 1
    /\ res.SelectedIdx = res.nf - 1

(***************************************************************************)
(* A drag-and-drop move inside the grid: DropBefore or DropAfter, then     *)
(* DragNDropSource.  The images are named by the index they had before the *)
(* drag.                                                                   *)
(***************************************************************************)
MaxDrag == 4

\* the indexes of a set in ascending order
RECURSIVE IdxsAscending(_)
IdxsAscending(S) ==
    IF S = {} THEN <<>> ELSE <<SetMin(S)>> \o IdxsAscending(S \ {SetMin(S)})

\* ImgGrid.SaveDraggedIdxs: the selected indexes as they will be after
\* the insertion at idx
SaveDraggedIdxs(sel, idx) ==
    LET ixs == IdxsAscending(sel)
    IN [i \in DOMAIN ixs |->
           IF ixs[i] > idx THEN ixs[i] + Cardinality(sel) ELSE ixs[i]]

\* ImgGrid.CopySelToMime and FromMimeData: the names of the selected images
DraggedNames(imgs, sel) ==
    LET ixs == IdxsAscending(sel)
    IN [i \in DOMAIN ixs |-> imgs[ixs[i] + 1]]

\* the loop of DragNDropSource: ImageDeleteAt of the dragged indexes,
\* highest first
RECURSIVE DeleteDragged(_, _)
DeleteDragged(imgs, ixs) ==
    IF ixs = {} THEN imgs
    ELSE DeleteDragged(SliceDeleteAt(imgs, SetMax(ixs)), ixs \ {SetMax(ixs)})

\* a grid of up to MaxDrag images, some selected and dragged, dropped on
\* the image at idx
InitDrag ==
    /\ IdleFS /\ IdleThumbs /\ IdleSave /\ IdleProg
    /\ res = <<>>
    /\ \E n \in 1..MaxDrag :
       \E sel \in (SUBSET (0..(n - 1))) \ {{}}, idx \in 0..(n - 1) :
          arg = [Images |-> [i \in 1..n |-> i], sel |-> sel, idx |-> idx]

\* DropBefore and DropAfter with the Move modifier, up to the call of
\* DragNDropSource
DropAt(op, at) ==
    /\ res = <<>>
    /\ res' = [op |-> op, at |-> at,
               DraggedIdxs |-> SaveDraggedIdxs(arg.sel, at),
               Images |-> SliceInsertAt(arg.Images, at,
                                        DraggedNames(arg.Images, arg.sel)),
               done |-> FALSE]
    /\ UNCHANGED <<fsVars, thVars, svVars, ppVars, arg>>

DropBefore == DropAt("DropBefore", arg.idx)

DropAfter == DropAt("DropAfter", arg.idx + 1)

\* ImgGrid.DragNDropSource
DragNDropSource ==
    /\ res # <<>> /\ ~res.done
    /\ res' = [res EXCEPT
                  !.Images = DeleteDragged(@, {res.DraggedIdxs[i] :
                                               i \in DOMAIN res.DraggedIdxs}),
                  !.DraggedIdxs = <<>>, !.done = TRUE]
    /\ UNCHANGED <<fsVars, thVars, svVars, ppVars, arg>>

NextDrag == DropBefore \/ DropAfter \/ DragNDropSource

SpecDrag == InitDrag /\ [][NextDrag]_vars

\* the list with the dragged images taken out and put back, in their
\* order, before the image that was at index `at`
MovedTo(imgs, sel, at) ==
    LET rest == SelectSeq(imgs, LAMBDA x : (x - 1) \notin sel)
        k == Cardinality({i \in 0..(at - 1) : i \notin sel})
    IN SliceInsertAt(rest, k, DraggedNames(imgs, sel))

\* C40: a drag-and-drop move inside the grid leaves the image list a
\* permutation of the list before the drag, with the dragged images at the
\* drop position in their original order, for every selection and every
\* drop index, a selected one included.
C40_DragMove ==
    (res # <<>> /\ res.done) =>
       res.Images = MovedTo(arg.Images, arg.sel, res.at)

\* C40 for the drops whose insertion index is not selected
DragMoveUnselected ==
    (res # <<>> /\ res.done /\ res.at \notin arg.sel) =>
       res.Images = MovedTo(arg.Images, arg.sel, res.at)

=============================================================================
